---------------------------- MODULE Spec2Model ----------------------------
(***************************************************************************)
(* A model of the Aadhaar risk-scoring pipeline                            *)
(* (src/analysis/advanced_risk_analysis.py, class KillerMoveAnalyzer) and  *)
(* of the scripts around it.                                               *)
(*                                                                         *)
(* Numbers.  pandas, numpy and Python compute in binary floating point     *)
(* (IEEE 754 binary64), and so does the model: every operation gives the   *)
(* float nearest to the exact result, and the sums, means and standard     *)
(* deviations are added up in the order and by the method the libraries    *)
(* use (pandas 2 without bottleneck, numpy 1.22 or later).  A float is a   *)
(* triple <<s, m, e>>, see Number.  The figures Python formats into        *)
(* strings are the strings.                                                *)
(*                                                                         *)
(* Tables.  A raw dataset (the rows of the CSV files of one folder) is a   *)
(* bag of rows: a function from the rows of a small universe to their      *)
(* multiplicity.  A DataFrame produced by the pipeline is a sequence of    *)
(* records, one record per row, in the row order pandas produces.          *)
(***************************************************************************)
EXTENDS Integers, Sequences, FiniteSets, TLC

(***************************************************************************)
(* Bounds of the model.                                                    *)
(***************************************************************************)
\* The most rows the environment adds to the three CSV folders before a run.
MaxRows == 4
\* The most rows the environment adds to the wide extract before a run.
MaxWideRows == 2
\* The most rows the environment adds to the bulk extract before a run.
MaxBulkRows == 2
\* The most rows the environment adds to the tie extract before a run.
MaxTieRows == 2

(***************************************************************************)
(* Natural numbers of any size.                                            *)
(***************************************************************************)
\* A natural number is the sequence of its digits in base Radix, the least
\* significant first, without a leading zero digit: 0 is <<>>.
Radix == 2^15

\* The number of binary digits of a natural number below 2^31.
BitLength(n) ==
    IF n = 0 THEN 0 ELSE CHOOSE k \in 1..31 : n \div (2^(k - 1)) = 1

\* The natural number n, for n below 2^31.
RECURSIVE NatOf(_)
NatOf(n) == IF n = 0 THEN <<>> ELSE <<n % Radix>> \o NatOf(n \div Radix)

\* The value of a natural number below 2^31.
RECURSIVE IntOfNat(_)
IntOfNat(a) == IF a = <<>> THEN 0 ELSE a[1] + Radix * IntOfNat(Tail(a))

\* d + Radix * a for a digit d.
NatCons(d, a) == IF d = 0 /\ a = <<>> THEN a ELSE <<d>> \o a

\* a + b + c for a carry c of 0 or 1, digit by digit.
RECURSIVE NatAdd(_, _, _)
NatAdd(a, b, c) ==
    IF b = <<>> /\ c = 0 THEN a
    ELSE IF a = <<>> /\ c = 0 THEN b
    ELSE IF a = <<>> /\ b = <<>> THEN <<c>>
    ELSE LET d == (IF a = <<>> THEN 0 ELSE a[1])
                    + (IF b = <<>> THEN 0 ELSE b[1]) + c
         IN  <<d % Radix>> \o NatAdd(IF a = <<>> THEN a ELSE Tail(a),
                                     IF b = <<>> THEN b ELSE Tail(b),
                                     d \div Radix)

\* -1, 0 or 1 as a is below, equal to or above b: by their lengths, then by
\* the leading digit in which they differ.
RECURSIVE NatCmp(_, _)
NatCmp(a, b) ==
    IF Len(a) # Len(b) THEN (IF Len(a) < Len(b) THEN -1 ELSE 1)
    ELSE IF a = <<>> THEN 0
    ELSE IF a[Len(a)] # b[Len(a)]
    THEN (IF a[Len(a)] < b[Len(a)] THEN -1 ELSE 1)
    ELSE NatCmp(SubSeq(a, 1, Len(a) - 1), SubSeq(b, 1, Len(a) - 1))

\* a - b - c for a >= b + c and a borrow c of 0 or 1, digit by digit.
RECURSIVE NatSub(_, _, _)
NatSub(a, b, c) ==
    IF b = <<>> /\ c = 0 THEN a
    ELSE LET d == a[1] - (IF b = <<>> THEN 0 ELSE b[1]) - c
         IN  NatCons(d % Radix,
                     NatSub(Tail(a), IF b = <<>> THEN b ELSE Tail(b),
                            IF d < 0 THEN 1 ELSE 0))

\* a * k + c for 0 <= k <= Radix and a carry c below Radix, digit by digit.
RECURSIVE NatMulSmall(_, _, _)
NatMulSmall(a, k, c) ==
    IF a = <<>> THEN NatCons(c, a)
    ELSE LET d == a[1] * k + c
         IN  NatCons(d % Radix, NatMulSmall(Tail(a), k, d \div Radix))

\* a * b
RECURSIVE NatMul(_, _)
NatMul(a, b) ==
    IF b = <<>> \/ a = <<>> THEN <<>>
    ELSE NatAdd(NatMulSmall(a, b[1], 0), NatCons(0, NatMul(a, Tail(b))), 0)

\* <<a \div k, a % k>> for 0 < k <= Radix, from the leading digit down.
RECURSIVE NatDivSmall(_, _)
NatDivSmall(a, k) ==
    IF a = <<>> THEN <<a, 0>>
    ELSE LET high == NatDivSmall(Tail(a), k)
             d == high[2] * Radix + a[1]
         IN  <<NatCons(d \div k, high[1]), d % k>>

\* The number of binary digits of a.
NatBits(a) ==
    IF a = <<>> THEN 0 ELSE 15 * (Len(a) - 1) + BitLength(a[Len(a)])

\* Whether the binary digit of 2^n of a is 1.
NatBit(a, n) ==
    /\ (n \div 15) + 1 \in DOMAIN a
    /\ (a[(n \div 15) + 1] \div (2^(n % 15))) % 2 = 1

\* Whether a % 2^n is not 0.
NatLow(a, n) ==
    \E i \in DOMAIN a : \/ i <= n \div 15 /\ a[i] # 0
                        \/ i = (n \div 15) + 1 /\ a[i] % (2^(n % 15)) # 0

\* a * 2^n
NatShl(a, n) ==
    IF a = <<>> THEN a
    ELSE [i \in 1..(n \div 15) |-> 0] \o NatMulSmall(a, 2^(n % 15), 0)

\* a \div 2^n: the digits from the one of 2^n up, divided by what is left
\* of 2^n.
NatShr(a, n) ==
    IF n \div 15 >= Len(a) THEN <<>>
    ELSE NatDivSmall(SubSeq(a, (n \div 15) + 1, Len(a)), 2^(n % 15))[1]

\* a / 2^n rounded to the nearest natural number, a tie to the even one; a
\* is taken to be above its value if sticky.  It is a \div 2^n and 1 more
\* if the digit of 2^(n - 1) is 1 and a digit below it, the sticky, or the
\* digit of 2^n is.
NatShrRound(a, n, sticky) ==
    IF n <= 0 THEN a
    ELSE NatAdd(NatShr(a, n), <<>>,
                IF NatBit(a, n - 1)
                   /\ (sticky \/ NatLow(a, n - 1) \/ NatBit(a, n))
                THEN 1 ELSE 0)

\* An estimate of rem \div y that is at least 1 and not above it, for
\* y <= rem < y * Radix and a leading digit of y of at least Radix / 2:
\* from the leading digits.
NatDivEstimate(rem, y) ==
    IF Len(rem) > Len(y)
    THEN (rem[Len(y) + 1] * Radix + rem[Len(y)]) \div (y[Len(y)] + 1)
    ELSE 1

\* <<q + rem \div y + Radix * digits, rem % y>> for rem < y * Radix: the
\* digit rem \div y of a long division, by estimates.
RECURSIVE NatDivDigit(_, _, _, _)
NatDivDigit(rem, y, q, digits) ==
    IF NatCmp(rem, y) < 0 THEN <<NatCons(q, digits), rem>>
    ELSE NatDivDigit(NatSub(rem, NatMulSmall(y, NatDivEstimate(rem, y), 0), 0),
                     y, q + NatDivEstimate(rem, y), digits)

\* <<a \div y, a % y>> for a leading digit of y of at least Radix / 2: long
\* division, from the leading digit down.  The next digit d after the
\* quotient and the remainder high of the digits above it: a remainder of 0
\* and a digit 0 give the digit 0.
NatDivNext(high, d, y) ==
    IF high[2] = <<>> /\ d = 0 THEN <<NatCons(0, high[1]), <<>>>>
    ELSE NatDivDigit(NatCons(d, high[2]), y, 0, high[1])
RECURSIVE NatDivLong(_, _)
NatDivLong(a, y) ==
    IF a = <<>> THEN <<a, a>>
    ELSE NatDivNext(NatDivLong(Tail(a), y), a[1], y)

\* <<a \div b, a natural number that is 0 when a % b is>> for b # 0: both
\* are scaled to make the leading digit of the divisor at least Radix / 2.
NatDiv(a, b) ==
    NatDivLong(NatMulSmall(a, 2^(15 - BitLength(b[Len(b)])), 0),
               NatMulSmall(b, 2^(15 - BitLength(b[Len(b)])), 0))

\* <<the whole part r of the square root of a, a - r * r>>, from x and the
\* next y of the numbers x, (x + a \div x) \div 2, ... that start above the
\* root: they fall until they reach r.
RECURSIVE NatSqrtFrom(_, _, _)
NatSqrtFrom(a, x, y) ==
    IF NatCmp(y, x) >= 0 THEN <<x, NatSub(a, NatMul(x, x), 0)>>
    ELSE NatSqrtFrom(a, y, NatShr(NatAdd(y, NatDiv(a, y)[1], 0), 1))

\* The numbers start from two powers of 2 above the root.
NatSqrt(a) ==
    NatSqrtFrom(a, NatShl(<<1>>, ((NatBits(a) + 1) \div 2) + 1),
                NatShl(<<1>>, (NatBits(a) + 1) \div 2))

(***************************************************************************)
(* Binary floating point.                                                  *)
(***************************************************************************)
\* numpy and Python compute in IEEE 754 binary64, every operation rounded to
\* the nearest float, a tie to the even one.  The number s * m * 2^e is the
\* triple <<s, m, e>> of its sign s (1 or -1), the odd natural number m and
\* the integer e; 0 is <<1, <<>>, 0>>.  A float is such a number with m below
\* 2^53, or NaN, which is <<0, <<>>, 0>>: two floats are equal when their
\* triples are.  The model has no negative zero, no infinity and no
\* underflow: the pipeline divides by numbers above 0 only and its figures
\* are far from the ends of the exponent range.
NaN == <<0, <<>>, 0>>
Zero == <<1, <<>>, 0>>
IsNaN(x) == x[1] = 0

\* The number of binary digits 0 at the end of a digit d above 0.
LowZeros(d) == CHOOSE k \in 0..14 : (d \div (2^k)) % 2 = 1 /\ d % (2^k) = 0

\* The number s * m * 2^e.
RECURSIVE Number(_, _, _)
Number(s, m, e) ==
    IF m = <<>> THEN Zero
    ELSE IF m[1] = 0 THEN Number(s, Tail(m), e + 15)
    ELSE IF m[1] % 2 = 1 THEN <<s, m, e>>
    ELSE <<s, NatDivSmall(m, 2^LowZeros(m[1]))[1], e + LowZeros(m[1])>>

\* The float nearest to s * m * 2^e, a tie to the even one; m is taken to be
\* above its value if sticky, and then has more than 54 binary digits.
Nearest(s, m, e, sticky) ==
    Number(s, NatShrRound(m, NatBits(m) - 53, sticky),
           IF NatBits(m) > 53 THEN e + NatBits(m) - 53 ELSE e)

\* The float nearest to s * d[1] * 2^e for a quotient or a root d[1] with
\* the remainder d[2].
NearestInexact(s, d, e) == Nearest(s, d[1], e, d[2] # <<>>)

\* The float nearest to a number.
Rounded(x) == IF IsNaN(x) THEN NaN ELSE Nearest(x[1], x[2], x[3], FALSE)

\* float(n) of an integer n.
F(n) == Number(IF n < 0 THEN -1 ELSE 1, NatOf(IF n < 0 THEN -n ELSE n), 0)

\* -x and abs(x)
FNeg(x) == <<-x[1], x[2], x[3]>>
FAbs(x) == <<x[1] * x[1], x[2], x[3]>>

\* The number s * a * 2^e + t * b * 2^e.
RECURSIVE SumAligned(_, _, _, _, _)
SumAligned(s, a, t, b, e) ==
    IF s # t /\ NatCmp(a, b) < 0 THEN SumAligned(t, b, s, a, e)
    ELSE Number(s, IF s = t THEN NatAdd(a, b, 0) ELSE NatSub(a, b, 0), e)

\* The number x + y.
RECURSIVE Sum(_, _)
Sum(x, y) ==
    IF IsNaN(x) \/ IsNaN(y) THEN NaN
    ELSE IF y[2] = <<>> THEN x
    ELSE IF x[2] = <<>> THEN y
    ELSE IF x[3] < y[3] THEN Sum(y, x)
    ELSE SumAligned(x[1], NatShl(x[2], x[3] - y[3]), y[1], y[2], y[3])

\* The number x * y.
Product(x, y) ==
    IF IsNaN(x) \/ IsNaN(y) THEN NaN
    ELSE Number(x[1] * y[1], NatMul(x[2], y[2]), x[3] + y[3])

\* x + y, x - y and x * y of floats: an operation on NaN gives NaN.
FAdd(x, y) == Rounded(Sum(x, y))
FSub(x, y) == Rounded(Sum(x, FNeg(y)))
FMul(x, y) == Rounded(Product(x, y))

\* The k that gives a * 2^k \div b 55 or 56 binary digits, or 0 if it has
\* more without.
QuotientShift(a, b) ==
    IF NatBits(a) > NatBits(b) + 55 THEN 0
    ELSE 55 + NatBits(b) - NatBits(a)

\* The float nearest to s * (a / b) * 2^e for natural numbers a and b # 0.
NearestQuotient(s, a, b, e) ==
    NearestInexact(s, NatDiv(NatShl(a, QuotientShift(a, b)), b),
                   e - QuotientShift(a, b))

\* x / y of floats for y # 0.
FDiv(x, y) ==
    IF IsNaN(x) \/ IsNaN(y) THEN NaN
    ELSE IF x[2] = <<>> THEN Zero
    ELSE NearestQuotient(x[1] * y[1], x[2], y[2], x[3] - y[3])

\* The k that gives m * 2^k 119 or 120 binary digits and leaves e - k even.
RootShift(m, e) == 120 - NatBits(m) - ((e - NatBits(m)) % 2)

\* np.sqrt(x) of a float x >= 0: from the root of m * 2^k, of 60 binary
\* digits.
FSqrt(x) ==
    IF IsNaN(x) THEN NaN
    ELSE IF x[2] = <<>> THEN Zero
    ELSE NearestInexact(1, NatSqrt(NatShl(x[2], RootShift(x[2], x[3]))),
                        (x[3] - RootShift(x[2], x[3])) \div 2)

\* -1, 0 or 1 as the number x is below, equal to or above y: by their
\* signs, then by their leading binary digits, then by their digits.
RECURSIVE FCmp(_, _)
FCmp(x, y) ==
    IF x[2] = <<>> THEN (IF y[2] = <<>> THEN 0 ELSE -y[1])
    ELSE IF y[2] = <<>> THEN x[1]
    ELSE IF x[1] # y[1] THEN x[1]
    ELSE IF x[3] < y[3] THEN -FCmp(y, x)
    ELSE IF x[3] + NatBits(x[2]) # y[3] + NatBits(y[2])
    THEN (IF x[3] + NatBits(x[2]) > y[3] + NatBits(y[2]) THEN x[1] ELSE -x[1])
    ELSE x[1] * NatCmp(NatShl(x[2], x[3] - y[3]), y[2])

\* Comparisons of floats: every comparison with NaN is false.
FLt(x, y) == ~IsNaN(x) /\ ~IsNaN(y) /\ FCmp(x, y) < 0
FLe(x, y) == ~IsNaN(x) /\ ~IsNaN(y) /\ FCmp(x, y) <= 0
FGt(x, y) == FLt(y, x)

\* np.rint(x): the nearest whole number, a tie to the even one.
FRint(x) ==
    IF IsNaN(x) \/ x[3] >= 0 THEN x
    ELSE Number(x[1], NatShrRound(x[2], -x[3], FALSE), 0)

\* The natural number |x| rounded towards 0.
NatTrunc(x) ==
    IF x[3] >= 0 THEN NatShl(x[2], x[3]) ELSE NatShr(x[2], -x[3])

\* |x| * scale, for a scale up to Radix, rounded to the nearest natural
\* number, a tie to the even one.
NatRound(x, scale) ==
    IF x[3] >= 0 THEN NatShl(NatMulSmall(x[2], scale, 0), x[3])
    ELSE NatShrRound(NatMulSmall(x[2], scale, 0), -x[3], FALSE)

(***************************************************************************)
(* Columns of floats.                                                      *)
(***************************************************************************)
\* Series.clip(lo, hi): NaN stays NaN.
Clip(x, lo, hi) ==
    IF IsNaN(x) THEN NaN
    ELSE IF FLt(x, lo) THEN lo
    ELSE IF FGt(x, hi) THEN hi
    ELSE x

\* Series.round(2): np.round multiplies by 100, takes the nearest whole
\* number (np.rint) and divides by 100.
Round2(x) == FDiv(FRint(FMul(x, F(100))), F(100))

\* The sum of f[i] over a sequence f of integers.
RECURSIVE ISum(_)
ISum(s) == IF s = <<>> THEN 0 ELSE Head(s) + ISum(Tail(s))

\* The values of a column that are not NaN.
DropNa(s) == SelectSeq(s, LAMBDA x : ~IsNaN(x))

\* group_sum and group_mean of pandas add the values up by Kahan's
\* compensated summation, here from the sum and the compensation so far: y
\* is the next value less the compensation and t the sum with it.  A sum
\* that is NaN stays NaN, whatever is added to it.
RECURSIVE KahanSum(_, _, _)
KahanCarry(values, sum, y, t) ==
    KahanSum(Tail(values), t, FSub(FSub(t, sum), y))
KahanAdd(values, sum, y) == KahanCarry(values, sum, y, FAdd(sum, y))
KahanSum(values, sum, compensation) ==
    IF values = <<>> \/ IsNaN(sum) THEN sum
    ELSE KahanAdd(values, sum, FSub(Head(values), compensation))

\* groupby(...).sum() of a group: NaN is skipped.
GroupedSum(s) == KahanSum(DropNa(s), Zero, Zero)

\* groupby(...).mean() of a group: NaN is skipped, and the mean of no value
\* is NaN.
Mean(s) ==
    IF DropNa(s) = <<>> THEN NaN
    ELSE FDiv(GroupedSum(s), F(Len(DropNa(s))))

\* group_var of pandas adds the squared deviations up by Welford's update,
\* here from the number of values, their mean and the sum so far, to <<the
\* number of values, the sum>>: delta is the next value less the mean so
\* far and m the mean with it.  A sum that is NaN stays NaN.
RECURSIVE Welford(_, _, _, _)
WelfordUpdate(values, nobs, out, delta, m) ==
    Welford(Tail(values), nobs + 1, m,
            FAdd(out, FMul(FSub(Head(values), m), delta)))
WelfordMove(values, nobs, mean, out, delta) ==
    WelfordUpdate(values, nobs, out, delta,
                  FAdd(mean, FDiv(delta, F(nobs + 1))))
Welford(values, nobs, mean, out) ==
    IF values = <<>> \/ IsNaN(out) THEN <<nobs + Len(values), out>>
    ELSE WelfordMove(values, nobs, mean, out, FSub(Head(values), mean))

\* The std (ddof = 1) from <<the number of values, the sum of the squared
\* deviations>>: NaN for fewer than two values.
StdOf(w) == IF w[1] < 2 THEN NaN ELSE FSqrt(FDiv(w[2], F(w[1] - 1)))

\* groupby(...).std() of a group: NaN is skipped.
Std(s) == StdOf(Welford(DropNa(s), 0, Zero, Zero))

\* res + s[1] + ... + s[n], added from the left: NaN stays NaN.
RECURSIVE SumFrom(_, _)
SumFrom(res, s) ==
    IF s = <<>> \/ IsNaN(res) THEN res
    ELSE SumFrom(FAdd(res, Head(s)), Tail(s))

\* The sum of an array as numpy's add.reduce adds it up (pairwise
\* summation): from the left below 8 values; in 8 interleaved partial sums
\* r(1), ..., r(8), added in pairs ((r1 + r2) + (r3 + r4)) + ((r5 + r6) +
\* (r7 + r8)), and the values after the last full 8 up to 128 values; in
\* two halves above.
RECURSIVE PairwiseSum(_)
PairwiseSum(a) ==
    LET n == Len(a)
        full == n - (n % 8)
        r(j) == SumFrom(a[j], [k \in 1..((full \div 8) - 1) |-> a[8 * k + j]])
        RECURSIVE Pairs(_, _)
        Pairs(lo, hi) ==
            IF lo = hi THEN r(lo)
            ELSE FAdd(Pairs(lo, (lo + hi) \div 2),
                      Pairs(((lo + hi) \div 2) + 1, hi))
        half == (n \div 2) - ((n \div 2) % 8)
    IN  IF n <= 128
        THEN SumFrom(IF n < 8 THEN Zero ELSE Pairs(1, 8),
                     IF n < 8 THEN a ELSE SubSeq(a, full + 1, n))
        ELSE FAdd(PairwiseSum(SubSeq(a, 1, half)),
                  PairwiseSum(SubSeq(a, half + 1, n)))

\* Series.sum(): NaN counts as 0.
SeriesSum(s) == PairwiseSum([i \in DOMAIN s |-> IF IsNaN(s[i]) THEN Zero ELSE s[i]])

\* Series.mean(): the sum of the whole column, NaN counting as 0, over the
\* number of values that are not NaN; NaN when there is none.
MeanOrNaN(s) ==
    IF DropNa(s) = <<>> THEN NaN ELSE FDiv(SeriesSum(s), F(Len(DropNa(s))))

\* int(x) of a float: the whole number towards 0, and the same as an
\* integer of the model checker for |x| below 2^31.
Trunc(x) == Number(x[1], NatTrunc(x), 0)
IntOf(x) == x[1] * IntOfNat(NatTrunc(x))

(***************************************************************************)
(* Formatting.                                                             *)
(***************************************************************************)
\* The decimal digits of a natural number, the most significant first.
RECURSIVE DecimalDigits(_)
DecimalDigits(a) ==
    LET Last(d) == IF d[1] = <<>> THEN <<d[2]>>
                   ELSE DecimalDigits(d[1]) \o <<d[2]>>
    IN  Last(NatDivSmall(a, 10))

\* The string of a sequence of decimal digits, with a comma before every
\* group of three digits counted from the end if grouped (the ',' option).
RECURSIVE DigitString(_, _)
DigitString(ds, grouped) ==
    IF ds = <<>> THEN ""
    ELSE <<"0", "1", "2", "3", "4", "5", "6", "7", "8", "9">>[ds[1] + 1]
         \o (IF grouped /\ Len(ds) > 1 /\ Len(ds) % 3 = 1 THEN "," ELSE "")
         \o DigitString(Tail(ds), grouped)

\* format(x, ',.<places>f') of a float, or of an integer as the float it
\* is converted to, without the comma unless grouped: the decimal number of
\* that many places nearest to x, a tie to the even one.
FormatFixed(x, places, grouped) ==
    LET Point(d) ==
            (IF x[1] < 0 THEN "-" ELSE "")
            \o DigitString(DecimalDigits(d[1]), grouped)
            \o (IF places = 0 THEN ""
                ELSE "." \o DigitString(
                         Tail(DecimalDigits(NatOf(10^places + d[2]))), FALSE))
    IN  IF IsNaN(x) THEN "nan"
        ELSE Point(NatDivSmall(NatRound(x, 10^places), 10^places))

\* 10^k
RECURSIVE NatPow10(_)
NatPow10(k) == IF k = 0 THEN <<1>> ELSE NatMulSmall(NatPow10(k - 1), 10, 0)

\* The quotient of d = <<a quotient, its remainder>> of (2 * a + b) by
\* 2 * b, made even when the remainder is 0: a / b rounded to the nearest
\* natural number, a tie to the even one.
NatEven(d) ==
    IF d[2] = <<>> /\ d[1] # <<>> /\ d[1][1] % 2 = 1
    THEN NatSub(d[1], <<>>, 1) ELSE d[1]

\* The natural number nearest to x * 10^j for a float x above 0, a tie to
\* the even one: x * 10^j is a quotient of two natural numbers.
ReprScaled(x, j) ==
    NatEven(NatDiv(
        NatAdd(NatShl(NatMul(x[2], NatPow10(IF j > 0 THEN j ELSE 0)),
                      IF x[3] > 0 THEN x[3] + 1 ELSE 1),
               NatShl(NatPow10(IF j < 0 THEN -j ELSE 0),
                      IF x[3] < 0 THEN -x[3] ELSE 0), 0),
        NatShl(NatPow10(IF j < 0 THEN -j ELSE 0),
               IF x[3] < 0 THEN 1 - x[3] ELSE 1)))

\* float('d / 10^j'): the float that the decimal number d / 10^j is read
\* as, the nearest to it.
ReprRead(d, j) ==
    NearestQuotient(1, NatMul(d, NatPow10(IF j < 0 THEN -j ELSE 0)),
                    NatPow10(IF j > 0 THEN j ELSE 0), 0)

\* The d on the other side of x * 10^j.
ReprOther(x, d, j) ==
    IF FCmp(ReprRead(d, j), x) < 0 THEN NatAdd(d, <<>>, 1)
    ELSE NatSub(d, <<>>, 1)

\* Decimal places without the zeros at the end, the first one kept.
RECURSIVE Stripped(_)
Stripped(ds) ==
    IF Len(ds) > 1 /\ ds[Len(ds)] = 0
    THEN Stripped(SubSeq(ds, 1, Len(ds) - 1)) ELSE ds

\* The string of a whole part, with commas, and decimal places.
ReprText(whole, places) ==
    DigitString(DecimalDigits(whole), TRUE)
    \o "." \o DigitString(places, FALSE)

\* The string of d / 10^j with the whole part q = d \div 10^j, for j > 0.
ReprSplit(d, j, q) ==
    ReprText(q, Stripped(Tail(DecimalDigits(
                    NatAdd(NatPow10(j),
                           NatSub(d, NatMul(q, NatPow10(j)), 0), 0)))))

\* The string of d / 10^j, with at least one place.
ReprWritten(d, j) ==
    IF j <= 0 THEN ReprText(NatMul(d, NatPow10(-j)), <<0>>)
    ELSE ReprSplit(d, j, NatDiv(d, NatPow10(j))[1])

\* repr(x), with commas, of a float x of at least 1 in p digits or more,
\* where whole is the number of digits of its whole part: with p digits the
\* decimal number is d / 10^j for j = p - whole, and the d to try are the
\* one nearest to x * 10^j and the one on the other side of it.
RECURSIVE ReprShortest(_, _, _)
ReprNearer(x, p, whole, d) ==
    IF ReprRead(d, p - whole) = x THEN ReprWritten(d, p - whole)
    ELSE IF ReprRead(ReprOther(x, d, p - whole), p - whole) = x
    THEN ReprWritten(ReprOther(x, d, p - whole), p - whole)
    ELSE ReprShortest(x, p + 1, whole)
ReprShortest(x, p, whole) ==
    ReprNearer(x, p, whole, ReprScaled(x, p - whole))

\* format(x, ',') of a float x that is 0 or at least 1 and below 10^16, as
\* repr(x) with commas: the shortest decimal number that float(...) reads
\* back as x, the nearest to x of that length, with at least one place.
FormatRepr(x) ==
    IF x[2] = <<>> THEN "0.0"
    ELSE ReprShortest(x, 1, Len(DecimalDigits(NatTrunc(x))))


(***************************************************************************)
(* The raw CSV extracts.                                                   *)
(***************************************************************************)
\* The date strings of the CSV files, day first: <<dd, mm, yyyy>>.
CsvDates == {<<1, 3, 2025>>, <<15, 10, 2025>>}
\* The (state, district) pairs of the CSV files: one district name in two
\* states.
Districts == {<<"S1", "A">>, <<"S1", "B">>, <<"S2", "A">>}
\* The state and district names of the model in Python's string order.
Strings == <<"A", "B", "D01", "D02", "D03", "D04", "D05", "D06", "D07", "D08",
             "D09", "D10", "D11", "D12", "D13", "D14", "D15", "D16", "D17",
             "D18", "D19", "D20", "S1", "S2", "S3">>
StrOrd(s) == CHOOSE i \in 1..Len(Strings) : Strings[i] = s

DatasetNames == {"enrolment", "demographic", "biometric"}

\* The rows an extract may hold.  The age counts of a row depend on its date.
EnrolRow(d, sd) ==
    [date |-> d, state |-> sd[1], district |-> sd[2], pincode |-> "110001",
     age_0_5 |-> IF d[2] = 3 THEN 0 ELSE 1,
     age_5_17 |-> IF d[2] = 3 THEN 1 ELSE 0,
     age_18_greater |-> 1]
EnrolRows == {EnrolRow(d, sd) : d \in CsvDates, sd \in Districts}
DemoRows ==
    {[date |-> d, state |-> sd[1], district |-> sd[2], pincode |-> "110001",
      demo_age_5_17 |-> IF d[2] = 3 THEN 1 ELSE 0,
      demo_age_17_ |-> 1] : d \in CsvDates, sd \in Districts}
BioRow(d, sd) ==
    [date |-> d, state |-> sd[1], district |-> sd[2], pincode |-> "110001",
     bio_age_5_17 |-> IF d[2] = 3 THEN 12 ELSE 1,
     bio_age_17_ |-> IF d[2] = 3 THEN 13 ELSE 0]
BioRows == {BioRow(d, sd) : d \in CsvDates, sd \in Districts}
RowsOf(ds) == CASE ds = "enrolment" -> EnrolRows
                [] ds = "demographic" -> DemoRows
                [] ds = "biometric" -> BioRows

\* The sum of f over the finite set S.
RECURSIVE SumOver(_, _)
SumOver(S, f) ==
    IF S = {} THEN 0
    ELSE LET x == CHOOSE y \in S : TRUE IN f[x] + SumOver(S \ {x}, f)

\* A bag of rows: a function from the rows that occur to how often they do.
EmptyBag == [r \in {} |-> 0]
AddRow(b, r) == IF r \in DOMAIN b THEN [b EXCEPT ![r] = @ + 1] ELSE (r :> 1) @@ b
BagSize(b) == SumOver(DOMAIN b, b)

(***************************************************************************)
(* Keys and their order.                                                   *)
(***************************************************************************)
\* pd.to_datetime(..., dayfirst=True): "dd-mm-yyyy" to the Timestamp
\* <<yyyy, mm, dd>>.
ToDatetime(str) == <<str[3], str[2], str[1]>>

\* Lexicographic order of two integer sequences of one length.
RECURSIVE LexLt(_, _)
LexLt(a, b) ==
    /\ a # <<>>
    /\ \/ Head(a) < Head(b)
       \/ (Head(a) = Head(b) /\ LexLt(Tail(a), Tail(b)))

\* The (date, state, district) key of a row, and the order pandas sorts
\* such keys in.
KeyOf(r) == <<r.date, r.state, r.district>>
KeyLt(k, j) ==
    LexLt(<<k[1][1], k[1][2], k[1][3], StrOrd(k[2]), StrOrd(k[3])>>,
          <<j[1][1], j[1][2], j[1][3], StrOrd(j[2]), StrOrd(j[3])>>)
\* The (state, district) key of a row, and its order.
DistrictOf(r) == <<r.state, r.district>>
DistrictLt(k, j) == LexLt(<<StrOrd(k[1]), StrOrd(k[2])>>,
                          <<StrOrd(j[1]), StrOrd(j[2])>>)

\* The elements of the finite set S as a sequence ascending by the strict
\* total order Lt.
SortSet(S, Lt(_, _)) ==
    [i \in 1..Cardinality(S) |->
        CHOOSE x \in S : Cardinality({y \in S : Lt(y, x)}) = i - 1]

\* The set of the elements of a sequence.
Range(s) == {s[i] : i \in DOMAIN s}

(***************************************************************************)
(* load_all_datasets                                                       *)
(***************************************************************************)
\* pd.concat of the CSV files of one folder with the date column parsed: the
\* set of <<row, multiplicity>> of the rows that occur.
LoadDataset(bag) ==
    {<<[r EXCEPT !.date = ToDatetime(r.date)], bag[r]>> : r \in DOMAIN bag}

(***************************************************************************)
(* create_integrated_dataset                                               *)
(***************************************************************************)
\* The keys of a raw frame.
FrameKeys(frame) == {KeyOf(e[1]) : e \in frame}

\* groupby(key)[col].sum(): the sum of Col over the rows of a key.
GroupSum(frame, key, Col(_)) ==
    SumOver({e \in frame : KeyOf(e[1]) = key},
            [e \in frame |-> e[2] * Col(e[1])])

\* groupby(key)['pincode'].count(): the rows of a key with a pincode.
PincodeCount(frame, key) ==
    GroupSum(frame, key, LAMBDA r : IF r.pincode = "NULL" THEN 0 ELSE 1)

\* A column of an aggregate in the outer merge: NaN on a key the aggregate
\* has no row for.
Merged(frame, key, v) == IF key \in FrameKeys(frame) THEN F(v) ELSE NaN
\* DataFrame.fillna(0)
FillNa0(x) == IF IsNaN(x) THEN F(0) ELSE x

\* The three aggregates merged on (date, state, district), how='outer', with
\* fillna(0): one row per key of the merge, sorted by key.
\* MergeKeys of an inner join.
MergeKeysInner(enrol, demo, bio) ==
    FrameKeys(enrol) \cap FrameKeys(demo) \cap FrameKeys(bio)

MergeKeys(enrol, demo, bio) ==
    FrameKeys(enrol) \cup FrameKeys(demo) \cup FrameKeys(bio)

MergedRow(enrol, demo, bio, key) ==
    [date |-> key[1], state |-> key[2], district |-> key[3],
     age_0_5 |-> FillNa0(Merged(enrol, key,
                    GroupSum(enrol, key, LAMBDA r : r.age_0_5))),
     age_5_17 |-> FillNa0(Merged(enrol, key,
                    GroupSum(enrol, key, LAMBDA r : r.age_5_17))),
     age_18_greater |-> FillNa0(Merged(enrol, key,
                    GroupSum(enrol, key, LAMBDA r : r.age_18_greater))),
     enrol_count |-> FillNa0(Merged(enrol, key, PincodeCount(enrol, key))),
     demo_age_5_17 |-> FillNa0(Merged(demo, key,
                    GroupSum(demo, key, LAMBDA r : r.demo_age_5_17))),
     demo_age_17_ |-> FillNa0(Merged(demo, key,
                    GroupSum(demo, key, LAMBDA r : r.demo_age_17_))),
     demo_count |-> FillNa0(Merged(demo, key, PincodeCount(demo, key))),
     bio_age_5_17 |-> FillNa0(Merged(bio, key,
                    GroupSum(bio, key, LAMBDA r : r.bio_age_5_17))),
     bio_age_17_ |-> FillNa0(Merged(bio, key,
                    GroupSum(bio, key, LAMBDA r : r.bio_age_17_))),
     bio_count |-> FillNa0(Merged(bio, key, PincodeCount(bio, key)))]

\* RatioOr that gives 0 where den is not positive.
RatioOrZero(num, den, scale, other) ==
    IF FGt(den, F(0)) THEN FMul(FDiv(num, den), scale) ELSE F(0)

\* np.where(den > 0, num / den * scale, other)
RatioOr(num, den, scale, other) ==
    IF FGt(den, F(0)) THEN FMul(FDiv(num, den), scale) ELSE other

\* _engineer_features: the derived columns of one row.
EngineerFeatures(r) ==
    LET total_enrol == FAdd(FAdd(r.age_0_5, r.age_5_17), r.age_18_greater)
        total_demo == FAdd(r.demo_age_5_17, r.demo_age_17_)
        total_bio == FAdd(r.bio_age_5_17, r.bio_age_17_)
        month == r.date[2]
    IN  r @@
        [total_enrol |-> total_enrol,
         total_demo |-> total_demo,
         total_bio |-> total_bio,
         demo_enrol_gap |-> FSub(r.enrol_count, r.demo_count),
         bio_enrol_gap |-> FSub(r.enrol_count, r.bio_count),
         bio_demo_gap |-> FSub(r.demo_count, r.bio_count),
         demo_completion_rate |->
            RatioOr(r.demo_count, r.enrol_count, F(100), F(100)),
         bio_completion_rate |->
            RatioOr(r.bio_count, r.enrol_count, F(100), F(100)),
         youth_ratio_enrol |-> RatioOr(r.age_5_17, total_enrol, F(1), F(0)),
         youth_ratio_demo |-> RatioOr(r.demo_age_5_17, total_demo, F(1), F(0)),
         youth_ratio_bio |-> RatioOr(r.bio_age_5_17, total_bio, F(1), F(0)),
         month |-> month,
         quarter |-> ((month - 1) \div 3) + 1,
         is_quarter_end |-> IF month \in {3, 6, 9, 12} THEN 1 ELSE 0,
         is_harvest_season |-> IF month \in {4, 5, 10, 11} THEN 1 ELSE 0,
         is_festival_season |-> IF month \in {10, 11, 3, 4} THEN 1 ELSE 0]

\* The integrated table of three raw frames.
IntegratedDataset(enrol, demo, bio) ==
    LET keys == SortSet(MergeKeys(enrol, demo, bio), KeyLt)
    IN  [i \in 1..Len(keys) |->
            EngineerFeatures(MergedRow(enrol, demo, bio, keys[i]))]

(***************************************************************************)
(* calculate_exclusion_risk_score                                          *)
(***************************************************************************)
\* The column Col of a sequence of rows.
Column(rows, Col(_)) == [i \in 1..Len(rows) |-> Col(rows[i])]

\* The rows of one (state, district) group, in frame order.
GroupRows(df, d) == SelectSeq(df, LAMBDA r : DistrictOf(r) = d)

\* The groups of groupby(['state', 'district']), sorted by key.
DistrictGroups(df) == SortSet({DistrictOf(r) : r \in Range(df)}, DistrictLt)

\* groupby(['state', 'district']).agg({...}) with the columns renamed, and
\* the fill of the missing volatility (the std of a single row) with 0.  The
\* fill of line 299 is an in-place fillna on a column selected from the
\* frame: it reaches the frame under a pandas without copy-on-write
\* (fills) and is lost on a copy under copy-on-write, the default from
\* pandas 3 (~fills), where the volatility of a single row stays NaN.
FillVolatility(std, fills) == IF fills THEN FillNa0(std) ELSE std

DistrictAgg(df, d, fills) ==
    LET g == GroupRows(df, d)
    IN  [state |-> d[1], district |-> d[2],
         avg_bio_completion |-> Mean(Column(g, LAMBDA r : r.bio_completion_rate)),
         avg_demo_completion |-> Mean(Column(g, LAMBDA r : r.demo_completion_rate)),
         avg_bio_gap |-> Mean(Column(g, LAMBDA r : r.bio_enrol_gap)),
         bio_gap_volatility |->
            FillVolatility(Std(Column(g, LAMBDA r : r.bio_enrol_gap)), fills),
         youth_ratio_enrol |-> Mean(Column(g, LAMBDA r : r.youth_ratio_enrol)),
         youth_ratio_bio |-> Mean(Column(g, LAMBDA r : r.youth_ratio_bio)),
         total_enrolments |->
            GroupedSum(Column(g, LAMBDA r : r.enrol_count))]

\* Series.max(): the largest of the values that are not NaN, NaN when there
\* is none.
SeriesMax(s) ==
    IF DropNa(s) = <<>> THEN NaN
    ELSE CHOOSE m \in Range(DropNa(s)) : \A x \in Range(DropNa(s)) : FLe(x, m)

\* The weights of the composite score: the literals 0.40, 0.25, 0.20 and
\* 0.15, each the float nearest to the decimal number.
W_GAP == FDiv(F(40), F(100))
W_MIGRATION == FDiv(F(25), F(100))
W_VOLATILITY == FDiv(F(20), F(100))
W_VOLUME == FDiv(F(15), F(100))

\* 1. Update gap risk: lower completion, higher risk.
GapRisk(avg_bio_completion) ==
    FSub(F(100), Clip(avg_bio_completion, F(0), F(100)))

\* 2. Migration risk: the youth ratio difference, scaled and clipped.
MigrationRisk(youth_ratio_enrol, youth_ratio_bio) ==
    Clip(FMul(FAbs(FSub(youth_ratio_enrol, youth_ratio_bio)), F(500)),
         F(0), F(100))

\* 3. Volatility risk: the volatility over the largest volatility, as a
\* percentage; 0 for all districts unless the largest is above 0.
VolatilityRisk(bio_gap_volatility, max_volatility) ==
    IF FGt(max_volatility, F(0))
    THEN FMul(FDiv(bio_gap_volatility, max_volatility), F(100))
    ELSE F(0)

\* Series.rank(pct=True): the average rank of v among the values (the sum
\* of the ranks of the values equal to v over their number), over the
\* number of values.
RankPct(values, v) ==
    LET n == Len(values)
        less == Cardinality({i \in 1..n : FLt(values[i], v)})
        same == Cardinality({i \in 1..n : values[i] = v})
    IN  FDiv(FDiv(F(same * less + ((same * (same + 1)) \div 2)), F(same)),
             F(n))

\* 4. Volume pressure risk: high volume with low completion.
VolumePressureRisk(volume_rank, avg_bio_completion) ==
    Clip(FMul(volume_rank, FSub(F(100), avg_bio_completion)), F(0), F(100))

\* CompositeCERS with the four sub-scores weighted equally.
CompositeEqual(gap_risk, migration_risk, volatility_risk, volume_pressure_risk) ==
    Round2(FMul(FAdd(FAdd(FAdd(gap_risk, migration_risk), volatility_risk),
                     volume_pressure_risk), FDiv(F(1), F(4))))

\* The composite score: the four products added from the left, rounded to
\* two decimals.
CompositeCERS(gap_risk, migration_risk, volatility_risk, volume_pressure_risk) ==
    Round2(FAdd(FAdd(FAdd(FMul(gap_risk, W_GAP),
                          FMul(migration_risk, W_MIGRATION)),
                     FMul(volatility_risk, W_VOLATILITY)),
                FMul(volume_pressure_risk, W_VOLUME)))

\* RiskCategory with the intervals closed on the left (pd.cut right=False).
RiskCategoryLeftClosed(cers) ==
    IF FLe(F(0), cers) /\ FLt(cers, F(30)) THEN "Low"
    ELSE IF FLe(F(30), cers) /\ FLt(cers, F(50)) THEN "Medium"
    ELSE IF FLe(F(50), cers) /\ FLt(cers, F(70)) THEN "High"
    ELSE IF FLe(F(70), cers) /\ FLt(cers, F(100)) THEN "Critical"
    ELSE "NaN"

\* pd.cut(CERS, bins=[0, 30, 50, 70, 100], labels=[...]): the intervals are
\* open on the left and closed on the right; a value in none of them (and
\* NaN) has no category.
RiskCategory(cers) ==
    IF FGt(cers, F(0)) /\ FLe(cers, F(30)) THEN "Low"
    ELSE IF FGt(cers, F(30)) /\ FLe(cers, F(50)) THEN "Medium"
    ELSE IF FGt(cers, F(50)) /\ FLe(cers, F(70)) THEN "High"
    ELSE IF FGt(cers, F(70)) /\ FLe(cers, F(100)) THEN "Critical"
    ELSE "NaN"

\* The four sub-scores of a district, each a column added to its row, from
\* the largest volatility and the rank of its volume among the districts.
SubScores(a, max_volatility, volume_rank) ==
    a @@ [gap_risk |-> GapRisk(a.avg_bio_completion),
          migration_risk |->
             MigrationRisk(a.youth_ratio_enrol, a.youth_ratio_bio),
          volatility_risk |->
             VolatilityRisk(a.bio_gap_volatility, max_volatility),
          volume_rank |-> volume_rank,
          volume_pressure_risk |->
             VolumePressureRisk(volume_rank, a.avg_bio_completion)]

\* The CERS column, from the sub-scores of the row.
WithCERS(a) ==
    a @@ [CERS |-> CompositeCERS(a.gap_risk, a.migration_risk,
                                 a.volatility_risk, a.volume_pressure_risk)]

\* The risk_category column, from the CERS of the row.
WithRiskCategory(a) == a @@ [risk_category |-> RiskCategory(a.CERS)]

\* The scored row of a district, given the aggregated frame.
ScoredRow(agg, i) ==
    WithRiskCategory(WithCERS(SubScores(
        agg[i],
        SeriesMax(Column(agg, LAMBDA r : r.bio_gap_volatility)),
        RankPct(Column(agg, LAMBDA r : r.total_enrolments),
                agg[i].total_enrolments))))

\* sort_values(col, ascending=False): descending, NaN last.  numpy's
\* default sort is not stable: rows of equal value keep their order
\* (stable) or not, as the build has it; the model takes either the order of
\* the frame or its reverse among equal rows.
SortDesc(rows, Val(_), stable) ==
    LET n == Len(rows)
        Before(i, j) ==
            \/ ~IsNaN(Val(rows[i])) /\ IsNaN(Val(rows[j]))
            \/ FGt(Val(rows[i]), Val(rows[j]))
            \/ /\ Val(rows[i]) = Val(rows[j])
               /\ IF stable \/ IsNaN(Val(rows[i])) THEN i < j ELSE j < i
        order == SortSet(1..n, Before)
    IN  [k \in 1..n |-> rows[order[k]]]

\* SortByCERS that leaves the frame in the order of its group keys.
SortByCERSUnsorted(rows, stable) == rows

SortByCERS(rows, stable) == SortDesc(rows, LAMBDA r : r.CERS, stable)

\* DataFrame.head(n)
HeadRows(rows, n) == SubSeq(rows, 1, IF Len(rows) < n THEN Len(rows) ELSE n)

\* The number of rows to list as the top districts.
TOP_N == 10

\* The number of rows of a category.
CategoryCount(rows, cat) ==
    Cardinality({i \in 1..Len(rows) : rows[i].risk_category = cat})

\* The aggregated frame: one row per group.
AggFrame(df, groups, fills) ==
    [i \in 1..Len(groups) |-> DistrictAgg(df, groups[i], fills)]

\* The aggregated frame with the score columns.
ScoredFrame(agg) == [i \in 1..Len(agg) |-> ScoredRow(agg, i)]

\* district_risk, as calculate_exclusion_risk_score returns it.
DistrictRisk(df, stable, fills) ==
    SortByCERS(ScoredFrame(AggFrame(df, DistrictGroups(df), fills)), stable)

\* risk_summary
RiskSummary(district_risk) ==
    [total_districts |-> Len(district_risk),
     critical_risk_districts |-> CategoryCount(district_risk, "Critical"),
     high_risk_districts |-> CategoryCount(district_risk, "High"),
     medium_risk_districts |-> CategoryCount(district_risk, "Medium"),
     low_risk_districts |-> CategoryCount(district_risk, "Low"),
     avg_cers |-> MeanOrNaN(Column(district_risk, LAMBDA r : r.CERS)),
     top_10_districts |->
        Column(HeadRows(district_risk, TOP_N),
               LAMBDA r : [state |-> r.state, district |-> r.district,
                           CERS |-> r.CERS, risk_category |-> r.risk_category,
                           total_enrolments |-> r.total_enrolments])]

(***************************************************************************)
(* discover_hidden_pattern                                                 *)
(***************************************************************************)
\* Series.quantile(q) with linear interpolation, for the literal q = qn/qd,
\* of the values that are not NaN: NaN when there is none.  pandas hands
\* q * 100 to np.percentile, which divides it by 100, takes the place
\* (n - 1) * q among the sorted values and interpolates between the value
\* at its whole part and the next by its fraction part gamma, from the
\* upper value when gamma is at least 0.5.
Ascending(values) ==
    [k \in 1..Len(values) |->
        CHOOSE v \in Range(values) :
            /\ Cardinality({i \in 1..Len(values) : FLt(values[i], v)}) < k
            /\ Cardinality({i \in 1..Len(values) : FLe(values[i], v)}) >= k]

Lerp(previous, next, gamma) ==
    IF FLt(gamma, FDiv(F(1), F(2)))
    THEN FAdd(previous, FMul(FSub(next, previous), gamma))
    ELSE FSub(next, FMul(FSub(next, previous), FSub(F(1), gamma)))

QuantileAt(asc, virtual_index) ==
    LET previous_index == IntOf(virtual_index)
    IN  IF asc = <<>> THEN NaN
        ELSE IF previous_index + 2 > Len(asc) THEN asc[Len(asc)]
        ELSE Lerp(asc[previous_index + 1], asc[previous_index + 2],
                  FSub(virtual_index, F(previous_index)))

Quantile(column, qn, qd) ==
    QuantileAt(Ascending(DropNa(column)),
               FMul(F(Len(DropNa(column)) - 1),
                    FDiv(FMul(FDiv(F(qn), F(qd)), F(100)), F(100))))

\* stats.ttest_ind(a, b) of two non-empty samples.  The model does not
\* evaluate Student's t distribution: the statistic, the p-value and the
\* comparison of the p-value with 0.05 are held as the terms they are, each
\* a tag with the two samples it is computed from.
TTestInd(a, b) ==
    [t_statistic |-> <<"ttest_ind(a, b).statistic", a, b>>,
     p_value |-> <<"ttest_ind(a, b).pvalue", a, b>>,
     is_significant |-> <<"ttest_ind(a, b).pvalue < 0.05", a, b>>]

\* The quarter-end effect: the t-test of the completion rates of the
\* quarter-end rows against the other rows when there are both, else a
\* statistic of 0 and a p-value of 1.
QuarterEndEffect(df) ==
    LET quarter_end_data ==
            Column(SelectSeq(df, LAMBDA r : r.is_quarter_end = 1),
                   LAMBDA r : r.bio_completion_rate)
        non_quarter_data ==
            Column(SelectSeq(df, LAMBDA r : r.is_quarter_end = 0),
                   LAMBDA r : r.bio_completion_rate)
    IN  IF Len(quarter_end_data) > 0 /\ Len(non_quarter_data) > 0
        THEN TTestInd(quarter_end_data, non_quarter_data)
        ELSE [t_statistic |-> F(0), p_value |-> F(1), is_significant |-> FALSE]

\* The valid rows by month: seasonal.
SeasonalAnalysis(df) ==
    LET months == SortSet({r.month : r \in Range(df)}, LAMBDA a, b : a < b)
    IN  [i \in 1..Len(months) |->
            LET g == SelectSeq(df, LAMBDA r : r.month = months[i])
            IN  [month |-> months[i],
                 is_harvest_season |-> g[1].is_harvest_season,
                 bio_completion_rate |->
                    Mean(Column(g, LAMBDA r : r.bio_completion_rate)),
                 demo_completion_rate |->
                    Mean(Column(g, LAMBDA r : r.demo_completion_rate)),
                 youth_ratio_bio |-> Mean(Column(g, LAMBDA r : r.youth_ratio_bio)),
                 districts_count |-> Len(g)]]

\* The youth_update_anomaly column of a row of the pattern frame.
YouthUpdateAnomaly(p) ==
    p @@ [youth_update_anomaly |->
             FSub(p.youth_ratio_enrol, p.youth_ratio_bio)]

\* The valid rows by district: pattern.
MigrationPattern(df) ==
    LET groups == DistrictGroups(df)
    IN  [i \in 1..Len(groups) |->
            LET g == GroupRows(df, groups[i])
            IN  YouthUpdateAnomaly(
                [state |-> groups[i][1], district |-> groups[i][2],
                 youth_ratio_enrol |->
                    Mean(Column(g, LAMBDA r : r.youth_ratio_enrol)),
                 youth_ratio_bio |->
                    Mean(Column(g, LAMBDA r : r.youth_ratio_bio)),
                 bio_completion_rate |->
                    Mean(Column(g, LAMBDA r : r.bio_completion_rate)),
                 demo_completion_rate |->
                    Mean(Column(g, LAMBDA r : r.demo_completion_rate)),
                 bio_enrol_gap |-> Mean(Column(g, LAMBDA r : r.bio_enrol_gap)),
                 enrol_count |->
                    GroupedSum(Column(g, LAMBDA r : r.enrol_count))])]

\* The rows of the pattern frame beyond the two thresholds and of more
\* than 100 enrolments, sorted by the anomaly: high_risk.
HighRisk(pattern, migration_risk_threshold, low_completion_threshold, stable) ==
    SortDesc(SelectSeq(pattern, LAMBDA r :
                /\ FGt(r.youth_update_anomaly, migration_risk_threshold)
                /\ FLt(r.bio_completion_rate, low_completion_threshold)
                /\ FGt(r.enrol_count, F(100))),
             LAMBDA r : r.youth_update_anomaly, stable)

\* high_risk with the thresholds the quantiles of the pattern frame.
HighRiskMigration(pattern, stable) ==
    HighRisk(pattern,
             Quantile(Column(pattern, LAMBDA r : r.youth_update_anomaly), 9, 10),
             Quantile(Column(pattern, LAMBDA r : r.bio_completion_rate), 1, 4),
             stable)

\* The findings dictionary, from the valid rows and the two frames.
HiddenFindings(df, seasonal, high_risk) ==
    [seasonal_bio_gap |-> seasonal,
     high_risk_migration_districts |-> HeadRows(high_risk, 50),
     quarter_end_effect |-> QuarterEndEffect(df),
     key_findings |->
        [migration_districts_identified |-> Len(high_risk),
         avg_bio_gap_in_harvest_season |->
            MeanOrNaN(Column(SelectSeq(seasonal,
                                LAMBDA r : r.is_harvest_season = 1),
                             LAMBDA r : r.bio_completion_rate)),
         avg_bio_gap_non_harvest |->
            MeanOrNaN(Column(SelectSeq(seasonal,
                                LAMBDA r : r.is_harvest_season = 0),
                             LAMBDA r : r.bio_completion_rate))]]

\* insights['hidden_pattern'], from the valid rows.
HiddenPatternOf(df, stable) ==
    HiddenFindings(df, SeasonalAnalysis(df),
                   HighRiskMigration(MigrationPattern(df), stable))

\* insights['hidden_pattern'].
HiddenPattern(combined, stable) ==
    HiddenPatternOf(
        SelectSeq(combined,
            LAMBDA r : FGt(r.enrol_count, F(0)) /\ FGt(r.bio_count, F(0))),
        stable)

(***************************************************************************)
(* propose_intervention_framework                                          *)
(***************************************************************************)
\* The day number of a Timestamp (days since 1970-01-01).
Ordinal(ts) ==
    LET y == IF ts[2] <= 2 THEN ts[1] - 1 ELSE ts[1]
        era == y \div 400
        yoe == y - era * 400
        mp == IF ts[2] > 2 THEN ts[2] - 3 ELSE ts[2] + 9
        doy == ((153 * mp + 2) \div 5) + ts[3] - 1
        doe == yoe * 365 + (yoe \div 4) - (yoe \div 100) + doy
    IN  era * 146097 + doe - 719468

\* The largest of a non-empty set of integers.
MaxOf(S) == CHOOSE x \in S : \A y \in S : y <= x

\* cers_data[cers_data['risk_category'] == cat]
OfCategory(cers_data, cat) == SelectSeq(cers_data, LAMBDA r : r.risk_category = cat)

\* PriorityDistricts of the Critical districts only.
PriorityCriticalOnly(cers_data) == OfCategory(cers_data, "Critical")

\* Intervention 1: the priority districts of the mobile vans.
PriorityDistricts(cers_data) ==
    OfCategory(cers_data, "Critical") \o OfCategory(cers_data, "High")

\* The priority districts by state, sorted by the average score.
RoutesByState(priority, stable) ==
    LET states == SortSet({r.state : r \in Range(priority)},
                          LAMBDA a, b : StrOrd(a) < StrOrd(b))
    IN  SortDesc([i \in 1..Len(states) |->
                    LET g == SelectSeq(priority, LAMBDA r : r.state = states[i])
                    IN  [state |-> states[i],
                         priority_districts |-> Column(g, LAMBDA r : r.district),
                         avg_risk_score |-> Mean(Column(g, LAMBDA r : r.CERS)),
                         affected_population |->
                            GroupedSum(Column(g, LAMBDA r : r.total_enrolments))]],
                 LAMBDA r : r.avg_risk_score, stable)

MobileVanOptimizer(cers_data, stable) ==
    LET priority == PriorityDistricts(cers_data)
    IN  [priority_states |-> HeadRows(RoutesByState(priority, stable), 10),
         total_districts_to_cover |-> Len(priority),
         estimated_population_reached |->
            IntOf(SeriesSum(Column(priority, LAMBDA r : r.total_enrolments)))]

\* Intervention 2: the alert candidates among the districts of the recent
\* rows (dated within 90 days of the latest date).
RecentData(df) ==
    IF df = <<>> THEN <<>>
    ELSE LET latest == MaxOf({Ordinal(r.date) : r \in Range(df)})
         IN  SelectSeq(df, LAMBDA r : Ordinal(r.date) >= latest - 90)

\* The recent rows by district: district_alert.
DistrictAlert(recent) ==
    LET groups == DistrictGroups(recent)
    IN  [i \in 1..Len(groups) |->
            LET g == GroupRows(recent, groups[i])
            IN  [state |-> groups[i][1], district |-> groups[i][2],
                 bio_completion_rate |->
                    Mean(Column(g, LAMBDA r : r.bio_completion_rate)),
                 demo_completion_rate |->
                    Mean(Column(g, LAMBDA r : r.demo_completion_rate)),
                 enrol_count |->
                    GroupedSum(Column(g, LAMBDA r : r.enrol_count))]]

\* AlertCandidates without the condition on the enrolment count.
AlertCandidatesAnyVolume(df) ==
    SelectSeq(DistrictAlert(RecentData(df)),
              LAMBDA r : FLt(r.bio_completion_rate, F(80)))

AlertCandidates(df) ==
    SelectSeq(DistrictAlert(RecentData(df)),
              LAMBDA r : /\ FLt(r.bio_completion_rate, F(80))
                         /\ FGt(r.enrol_count, F(50)))

\* The campaign for the alert candidates, reaching 30% of their
\* enrolments at a cost of 0.10 each.
AlertCampaign(candidates, reached) ==
    [target_districts |-> Len(candidates),
     estimated_beneficiaries |-> IntOf(reached),
     total_campaign_cost |-> FMul(reached, FDiv(F(1), F(10)))]

AlertsFor(candidates) ==
    AlertCampaign(candidates,
                  FMul(SeriesSum(Column(candidates, LAMBDA r : r.enrol_count)),
                       FDiv(F(3), F(10))))

ProactiveAlerts(df) == AlertsFor(AlertCandidates(df))

\* Intervention 3: the districts of high volatility.
CapacityBuilding(cers_data) ==
    [target_districts |->
        Len(SelectSeq(cers_data, LAMBDA r : FGt(r.volatility_risk, F(70))))]

\* The interventions dictionary.  Intervention 4 holds fixed text only.
Interventions(cers_data, df, stable) ==
    [mobile_van_optimizer |-> MobileVanOptimizer(cers_data, stable),
     proactive_alerts |-> ProactiveAlerts(df),
     capacity_building |-> CapacityBuilding(cers_data)]

(***************************************************************************)
(* quantify_economic_impact                                                *)
(***************************************************************************)
\* The assumptions of the assessment.
COST_PER_EXCLUDED_CITIZEN == 5000
MOBILE_VAN_COST == 200000
ENROLLMENT_CENTER_UPGRADE == 500000
CITIZENS_PER_VAN_PER_DAY == 150
WORKING_DAYS_PER_MONTH == 25

\* dict.get(key, default)
Get(d, key, default) == IF key \in DOMAIN d THEN d[key] ELSE default

\* f'₹{x:,.0f}'
Rupees(x) == "₹" \o FormatFixed(x, 0, TRUE)

\* interventions.get(name, {})
Intervention(interventions, name) ==
    Get(interventions, name, [k \in {} |-> 0])

\* The integers of the assessment are below 2^53, so each is the float
\* Python converts it to.
\* The current exclusion cost: 20% of the population the vans reach, as a
\* whole number, at the cost per excluded citizen.
ExclusionCost(interventions) ==
    LET affected_population ==
            F(Get(Intervention(interventions, "mobile_van_optimizer"),
                  "estimated_population_reached", 0))
        citizens_at_risk ==
            Trunc(FMul(affected_population, FDiv(F(20), F(100))))
    IN  [affected_population |-> affected_population,
         citizens_at_risk |-> citizens_at_risk,
         annual_exclusion_cost |->
            FMul(citizens_at_risk, F(COST_PER_EXCLUDED_CITIZEN))]

\* The intervention costs: the vans, one per 5 districts, the alerts and
\* the centers, 2 per district.
InterventionCosts(interventions) ==
    LET num_vans_needed ==
            Trunc(FDiv(F(Get(Intervention(interventions,
                                          "mobile_van_optimizer"),
                             "total_districts_to_cover", 0)), F(5)))
        mobile_van_annual_cost ==
            FMul(FMul(num_vans_needed, F(MOBILE_VAN_COST)), F(12))
        alert_cost ==
            Get(Intervention(interventions, "proactive_alerts"),
                "total_campaign_cost", F(0))
        capacity_building_cost ==
            FMul(FMul(F(Get(Intervention(interventions, "capacity_building"),
                            "target_districts", 0)), F(2)),
                 F(ENROLLMENT_CENTER_UPGRADE))
    IN  [mobile_van_annual_cost |-> mobile_van_annual_cost,
         citizens_served_by_vans |->
            FMul(FMul(FMul(FMul(num_vans_needed, F(CITIZENS_PER_VAN_PER_DAY)),
                           F(WORKING_DAYS_PER_MONTH)), F(12)),
                 FDiv(F(7), F(10))),
         alert_cost |-> alert_cost,
         alert_beneficiaries |->
            F(Get(Intervention(interventions, "proactive_alerts"),
                  "estimated_beneficiaries", 0)),
         capacity_building_cost |-> capacity_building_cost,
         total_intervention_cost |->
            FAdd(FAdd(mobile_van_annual_cost, alert_cost),
                 capacity_building_cost),
         districts_covered |->
            Get(Intervention(interventions, "mobile_van_optimizer"),
                "total_districts_to_cover", 0)]

\* min(served_or_alerted, citizens_at_risk): citizens_helped is the integer
\* citizens_at_risk only when that is the smaller (min returns its first
\* argument otherwise).
CitizensHelped(c) ==
    LET served_or_alerted ==
            FAdd(c.citizens_served_by_vans, c.alert_beneficiaries)
    IN  c @@ [helped_is_int |-> FLt(c.citizens_at_risk, served_or_alerted),
              citizens_helped |->
                 IF FLt(c.citizens_at_risk, served_or_alerted)
                 THEN c.citizens_at_risk ELSE served_or_alerted]

\* The benefits: the three savings and their sum, added from the left.
Benefits(c) ==
    LET exclusion_prevented_savings ==
            FMul(c.citizens_helped, F(COST_PER_EXCLUDED_CITIZEN))
        efficiency_savings ==
            FMul(FMul(c.affected_population, F(12000)), FDiv(F(15), F(100)))
        admin_savings ==
            FMul(FMul(c.citizens_helped, FDiv(F(1), F(2))), F(500))
    IN  c @@ [exclusion_prevented_savings |-> exclusion_prevented_savings,
              efficiency_savings |-> efficiency_savings,
              admin_savings |-> admin_savings,
              total_annual_savings |->
                 FAdd(FAdd(exclusion_prevented_savings, efficiency_savings),
                      admin_savings)]

\* net_benefit and roi: the quotient is rounded before it is multiplied
\* by 100.
NetBenefit(c) ==
    LET net_benefit == FSub(c.total_annual_savings, c.total_intervention_cost)
    IN  c @@ [net_benefit |-> net_benefit,
              roi |-> IF FGt(c.total_intervention_cost, F(0))
                      THEN FMul(FDiv(net_benefit, c.total_intervention_cost),
                                F(100))
                      ELSE F(0)]

\* The impact dictionary, its figures the strings they are formatted into:
\* citizens_helped prints with a decimal point as a float, without as an
\* integer.
Impact(c) ==
    [cost_analysis |->
        [current_annual_exclusion_cost |-> Rupees(c.annual_exclusion_cost),
         total_intervention_cost |-> Rupees(c.total_intervention_cost),
         mobile_van_cost |-> Rupees(c.mobile_van_annual_cost),
         proactive_alert_cost |-> Rupees(c.alert_cost),
         capacity_building_cost |-> Rupees(c.capacity_building_cost)],
     savings_analysis |->
        [exclusion_prevention_savings |->
            Rupees(c.exclusion_prevented_savings),
         benefit_delivery_efficiency_savings |->
            Rupees(c.efficiency_savings),
         administrative_savings |-> Rupees(c.admin_savings),
         total_annual_savings |-> Rupees(c.total_annual_savings)],
     net_benefit |->
        [annual_net_benefit |-> Rupees(c.net_benefit),
         roi_percentage |-> FormatFixed(c.roi, 2, FALSE) \o "%",
         payback_period_months |->
            IF FGt(c.total_annual_savings, F(0))
            THEN FormatFixed(FDiv(c.total_intervention_cost,
                                  FDiv(c.total_annual_savings, F(12))),
                             1, FALSE)
            ELSE "N/A"],
     citizen_impact |->
        [citizens_helped |->
            IF c.helped_is_int THEN FormatFixed(c.citizens_helped, 0, TRUE)
            ELSE FormatRepr(c.citizens_helped),
         families_impacted |->
            FormatFixed(Trunc(FMul(c.citizens_helped, FDiv(F(9), F(2)))),
                        0, TRUE),
         districts_covered |-> c.districts_covered]]

\* insights['economic_impact'], from the interventions dictionary ({} when
\* the entry is missing).
EconomicImpact(interventions) ==
    Impact(NetBenefit(Benefits(CitizensHelped(
        ExclusionCost(interventions) @@ InterventionCosts(interventions)))))

(***************************************************************************)
(* The analyzer and its run.                                               *)
(***************************************************************************)

VARIABLES
    csv,              \* the CSV folders on disk: dataset name -> bag of rows
    step,             \* how many stages of run_full_analysis have returned
    crashed,          \* a stage raised (KeyError, TypeError on None, ...)
    enrolment_data,   \* self.enrolment_data: <<>> is None, <<bag>> a frame
    demographic_data, \* self.demographic_data
    biometric_data,   \* self.biometric_data
    combined_data,    \* self.combined_data: <<>> is None, <<rows>> a frame
    insights,         \* self.insights: a function from its keys
    files,            \* the files and directories the scripts have written
    exit_status,      \* script -> "not_run", "completed" or "failed"
    top_20            \* the districts the dashboard script has plotted

vars == <<csv, step, crashed, enrolment_data, demographic_data, biometric_data,
          combined_data, insights, files, exit_status, top_20>>


\* None and a value of an attribute that may be None.
None == <<>>
Some(v) == <<v>>
IsNone(a) == a = <<>>
Value(a) == a[1]

\* A dictionary with an entry written.
Put(d, key, v) == (key :> v) @@ d

\* An extract maps each dataset folder that holds a CSV file to the bag of
\* the rows of its files; a folder that holds no CSV file is not in its
\* domain.  The three folders exist.
\* The empty extract: three folders whose CSV files hold no rows.
EmptyCsv == [ds \in DatasetNames |-> EmptyBag]

\* The extracts without rows: each folder holds a CSV file of the header
\* line only, or no CSV file.
FolderCsvs == {[ds \in S |-> EmptyBag] : S \in SUBSET DatasetNames}

\* The wide extract: ten more districts, of state S3, the k-th of which has
\* k enrolment rows of the March date and no other row.
WideDistricts ==
    {<<"S3", "D01">>, <<"S3", "D02">>, <<"S3", "D03">>, <<"S3", "D04">>,
     <<"S3", "D05">>, <<"S3", "D06">>, <<"S3", "D07">>, <<"S3", "D08">>,
     <<"S3", "D09">>, <<"S3", "D10">>}
WideCsv ==
    [EmptyCsv EXCEPT !["enrolment"] =
        [r \in {EnrolRow(<<1, 3, 2025>>, sd) : sd \in WideDistricts} |->
            StrOrd(r.district) - StrOrd("D01") + 1]]

\* The tie extract: two enrolment rows of 1 March for each of S1/A and S1/B
\* and one biometric row of that day for S1/A, whose weighted sum is 28.125
\* but for the rounding of the float operations.
TieCsv ==
    [EmptyCsv EXCEPT
        !["enrolment"] =
            (EnrolRow(<<1, 3, 2025>>, <<"S1", "A">>) :> 2)
            @@ (EnrolRow(<<1, 3, 2025>>, <<"S1", "B">>) :> 2),
        !["biometric"] = (BioRow(<<1, 3, 2025>>, <<"S1", "A">>) :> 1)]

\* The bulk extract: six districts of state S3 with many rows of one key.
\* D01 has 51 and D02 50 enrolment rows of 15 October and no biometric row;
\* D03 has 55 enrolment and 44 biometric rows of that day, D06 94 and 73;
\* D04 has 50 enrolment and 50 biometric rows of 15 October and 5 and 2 of
\* 1 October; D05 has 60 enrolment rows of 1 March.
BulkCsv ==
    [EmptyCsv EXCEPT
        !["enrolment"] =
            (EnrolRow(<<15, 10, 2025>>, <<"S3", "D01">>) :> 51)
            @@ (EnrolRow(<<15, 10, 2025>>, <<"S3", "D02">>) :> 50)
            @@ (EnrolRow(<<15, 10, 2025>>, <<"S3", "D03">>) :> 55)
            @@ (EnrolRow(<<15, 10, 2025>>, <<"S3", "D04">>) :> 50)
            @@ (EnrolRow(<<1, 10, 2025>>, <<"S3", "D04">>) :> 5)
            @@ (EnrolRow(<<1, 3, 2025>>, <<"S3", "D05">>) :> 60)
            @@ (EnrolRow(<<15, 10, 2025>>, <<"S3", "D06">>) :> 94),
        !["biometric"] =
            (BioRow(<<15, 10, 2025>>, <<"S3", "D03">>) :> 44)
            @@ (BioRow(<<15, 10, 2025>>, <<"S3", "D04">>) :> 50)
            @@ (BioRow(<<1, 10, 2025>>, <<"S3", "D04">>) :> 2)
            @@ (BioRow(<<15, 10, 2025>>, <<"S3", "D06">>) :> 73)]

\* The twenty-district extract: the wide extract and ten more districts of
\* state S3, the k-th of the twenty with k enrolment rows of the March date.
TwentyDistricts ==
    WideDistricts \cup
    {<<"S3", "D11">>, <<"S3", "D12">>, <<"S3", "D13">>, <<"S3", "D14">>,
     <<"S3", "D15">>, <<"S3", "D16">>, <<"S3", "D17">>, <<"S3", "D18">>,
     <<"S3", "D19">>, <<"S3", "D20">>}
TwentyCsv ==
    [EmptyCsv EXCEPT !["enrolment"] =
        [r \in {EnrolRow(<<1, 3, 2025>>, sd) : sd \in TwentyDistricts} |->
            StrOrd(r.district) - StrOrd("D01") + 1]]

\* The cluster extract: the wide extract with four biometric rows of
\* 15 October of district D01 and four of 1 March of district D02.
ClusterCsv ==
    [WideCsv EXCEPT !["biometric"] =
        (BioRow(<<15, 10, 2025>>, <<"S3", "D01">>) :> 4)
        @@ (BioRow(<<1, 3, 2025>>, <<"S3", "D02">>) :> 4)]

\* The rows of an extract that are rows of Districts.
AddedRows(c) ==
    LET n(ds) == IF ds \in DOMAIN c
                 THEN SumOver(DOMAIN c[ds] \cap RowsOf(ds), c[ds])
                 ELSE 0
    IN  n("enrolment") + n("demographic") + n("biometric")

\* The scripts of src/analysis.
Scripts == {"advanced_risk_analysis", "generate_presentation_dashboard",
            "multi_dataset_analysis", "generate_insights",
            "biometric_analysis"}

\* The files of the output directory.
OUTPUT_DIR == "analysis_outputs/strategic_analysis"
REPORT_MD == "strategic_analysis_REPORT.md"
INSIGHTS_JSON == "strategic_analysis_insights.json"
VisualizationFiles == {"cers_risk_map.html", "top_risk_districts.html",
                       "economic_impact.html", "seasonal_patterns.html"}

\* __init__, before run_full_analysis is called.
Constructed ==
    /\ step = 0
    /\ crashed = FALSE
    /\ enrolment_data = None
    /\ demographic_data = None
    /\ biometric_data = None
    /\ combined_data = None
    /\ insights = [k \in {} |-> 0]
    /\ files = {}
    /\ exit_status = [s \in Scripts |-> "not_run"]
    /\ top_20 = None

\* The analyzer constructed over an extract without rows.
Init == csv \in FolderCsvs /\ Constructed

\* The analyzer constructed over the empty or the wide extract.
InitWide == csv \in {EmptyCsv, WideCsv} /\ Constructed

\* The analyzer constructed over an extract without rows, the wide or the
\* cluster extract.
InitScripts == csv \in FolderCsvs \cup {WideCsv, ClusterCsv} /\ Constructed

\* The analyzer constructed over the empty or the bulk extract.
InitBulk == csv \in {EmptyCsv, BulkCsv} /\ Constructed

\* The analyzer constructed over the tie extract.
InitTies == csv = TieCsv /\ Constructed

\* The analyzer constructed over the empty, the wide or the twenty-district
\* extract.
InitTwenty == csv \in {EmptyCsv, WideCsv, TwentyCsv} /\ Constructed

\* RunOrder with the interventions proposed before the districts are scored.
RunOrderScoreLate ==
    <<"load_all_datasets", "create_integrated_dataset",
      "discover_hidden_pattern", "propose_intervention_framework",
      "calculate_exclusion_risk_score", "quantify_economic_impact",
      "generate_visualizations", "generate_executive_report">>

\* The stages of run_full_analysis, in the order it calls them.
RunOrder ==
    <<"load_all_datasets", "create_integrated_dataset",
      "discover_hidden_pattern", "calculate_exclusion_risk_score",
      "propose_intervention_framework", "quantify_economic_impact",
      "generate_visualizations", "generate_executive_report">>

\* The run is about to call the stage.
AtStage(name) ==
    /\ ~crashed
    /\ step < Len(RunOrder)
    /\ RunOrder[step + 1] = name

\* The stage raises after it has written some files: the run ends there and
\* the files stay.
RaiseAfter(written) ==
    /\ crashed' = TRUE
    /\ exit_status' = [exit_status EXCEPT !["advanced_risk_analysis"] = "failed"]
    /\ files' = files \cup written
    /\ UNCHANGED <<top_20, csv, step, enrolment_data, demographic_data, biometric_data,
                   combined_data, insights>>

\* The stage raises before it has written anything.
Raise == RaiseAfter({})

\* The environment: a row is added to a CSV file before the run starts, up
\* to max rows.
AddCsvRow(max) ==
    /\ step = 0 /\ ~crashed
    /\ AddedRows(csv) < max
    /\ \E ds \in DOMAIN csv : \E r \in RowsOf(ds) :
          csv' = [csv EXCEPT ![ds] = AddRow(@, r)]
    /\ UNCHANGED <<step, crashed, enrolment_data, demographic_data,
                   biometric_data, combined_data, insights, files,
                   exit_status, top_20>>

\* The folders in the order load_all_datasets reads them.
LoadOrder == <<"enrolment", "demographic", "biometric">>

\* The three folders are read one after the other, each into its attribute;
\* pd.concat of the files of a folder that holds no CSV file raises
\* ValueError, after the attributes of the folders before it are assigned.
load_all_datasets ==
    /\ AtStage("load_all_datasets")
    /\ LET missing == {i \in DOMAIN LoadOrder : LoadOrder[i] \notin DOMAIN csv}
           raises_at == IF missing = {} THEN Len(LoadOrder) + 1
                        ELSE CHOOSE i \in missing : \A j \in missing : i <= j
           loaded(i, old) == IF i < raises_at
                             THEN Some(LoadDataset(csv[LoadOrder[i]]))
                             ELSE old
       IN  /\ enrolment_data' = loaded(1, enrolment_data)
           /\ demographic_data' = loaded(2, demographic_data)
           /\ biometric_data' = loaded(3, biometric_data)
           /\ IF missing = {}
              THEN /\ step' = step + 1
                   /\ UNCHANGED <<crashed, exit_status>>
              ELSE /\ crashed' = TRUE
                   /\ exit_status' = [exit_status EXCEPT
                          !["advanced_risk_analysis"] = "failed"]
                   /\ step' = step
    /\ UNCHANGED <<top_20, csv, combined_data, insights, files>>

create_integrated_dataset ==
    /\ AtStage("create_integrated_dataset")
    /\ IF IsNone(enrolment_data) \/ IsNone(demographic_data)
            \/ IsNone(biometric_data)
       THEN Raise
       ELSE /\ combined_data' =
                   Some(IntegratedDataset(Value(enrolment_data),
                                          Value(demographic_data),
                                          Value(biometric_data)))
            /\ step' = step + 1
            /\ UNCHANGED <<top_20, csv, crashed, enrolment_data, demographic_data,
                           biometric_data, insights, files, exit_status>>

discover_hidden_pattern ==
    /\ AtStage("discover_hidden_pattern")
    /\ IF IsNone(combined_data)
       THEN Raise
       ELSE /\ \E stable \in BOOLEAN :
                  insights' = Put(insights, "hidden_pattern",
                                  HiddenPattern(Value(combined_data), stable))
            /\ step' = step + 1
            /\ UNCHANGED <<top_20, csv, crashed, enrolment_data, demographic_data,
                           biometric_data, combined_data, files, exit_status>>

\* self.insights['cers_districts'] and self.insights['cers_summary'].
StoreRisk(ins, district_risk) ==
    Put(Put(ins, "cers_districts", district_risk),
        "cers_summary", RiskSummary(district_risk))

calculate_exclusion_risk_score ==
    /\ AtStage("calculate_exclusion_risk_score")
    /\ IF IsNone(combined_data)
       THEN Raise
       ELSE /\ \E stable \in BOOLEAN, fills \in BOOLEAN :
                  insights' = StoreRisk(insights,
                                  DistrictRisk(Value(combined_data), stable, fills))
            /\ step' = step + 1
            /\ UNCHANGED <<top_20, csv, crashed, enrolment_data, demographic_data,
                           biometric_data, combined_data, files, exit_status>>

\* cers_data is the frame calculate_exclusion_risk_score returned, which is
\* the object it stored as insights['cers_districts'].
propose_intervention_framework ==
    /\ AtStage("propose_intervention_framework")
    /\ IF IsNone(combined_data) \/ "cers_districts" \notin DOMAIN insights
       THEN Raise
       ELSE /\ \E stable \in BOOLEAN :
                  insights' = Put(insights, "interventions",
                                  Interventions(insights["cers_districts"],
                                                Value(combined_data), stable))
            /\ step' = step + 1
            /\ UNCHANGED <<top_20, csv, crashed, enrolment_data, demographic_data,
                           biometric_data, combined_data, files, exit_status>>

quantify_economic_impact ==
    /\ AtStage("quantify_economic_impact")
    /\ insights' = Put(insights, "economic_impact",
                       EconomicImpact(Get(insights, "interventions",
                                          [k \in {} |-> 0])))
    /\ step' = step + 1
    /\ UNCHANGED <<top_20, csv, crashed, enrolment_data, demographic_data,
                   biometric_data, combined_data, files, exit_status>>

\* The entries generate_visualizations reads with insights[...].
VisualizationReads == {"cers_districts", "economic_impact"}

\* The output directory is made first; the two CERS charts are written
\* before insights['economic_impact'] is read, and the economic chart before
\* combined_data is copied.
generate_visualizations ==
    /\ AtStage("generate_visualizations")
    /\ IF "cers_districts" \notin DOMAIN insights
       THEN RaiseAfter({OUTPUT_DIR})
       ELSE IF "economic_impact" \notin DOMAIN insights
       THEN RaiseAfter({OUTPUT_DIR, "cers_risk_map.html",
                        "top_risk_districts.html"})
       ELSE IF IsNone(combined_data)
       THEN RaiseAfter({OUTPUT_DIR, "cers_risk_map.html",
                        "top_risk_districts.html", "economic_impact.html"})
       ELSE /\ files' = files \cup {OUTPUT_DIR} \cup VisualizationFiles
            /\ step' = step + 1
            /\ UNCHANGED <<top_20, csv, crashed, enrolment_data, demographic_data,
                           biometric_data, combined_data, insights,
                           exit_status>>

\* The entries generate_executive_report reads with insights[...].
ReportReads == {"cers_summary", "hidden_pattern", "interventions",
                "economic_impact"}

\* The report is written into the output directory, which
\* generate_visualizations creates.
generate_executive_report ==
    /\ AtStage("generate_executive_report")
    /\ IF ~(ReportReads \subseteq DOMAIN insights) \/ OUTPUT_DIR \notin files
       THEN Raise
       ELSE /\ files' = files \cup {REPORT_MD, INSIGHTS_JSON}
            /\ step' = step + 1
            /\ exit_status' =
                   [exit_status EXCEPT !["advanced_risk_analysis"] = "completed"]
            /\ UNCHANGED <<top_20, csv, crashed, enrolment_data, demographic_data,
                           biometric_data, combined_data, insights>>

WriteCsvRow == AddCsvRow(MaxRows)
WriteWideCsvRow == AddCsvRow(MaxWideRows)
WriteBulkCsvRow == AddCsvRow(MaxBulkRows)
WriteTieCsvRow == AddCsvRow(AddedRows(TieCsv) + MaxTieRows)

Next ==
    \/ WriteCsvRow
    \/ load_all_datasets
    \/ create_integrated_dataset
    \/ discover_hidden_pattern
    \/ calculate_exclusion_risk_score
    \/ propose_intervention_framework
    \/ quantify_economic_impact
    \/ generate_visualizations
    \/ generate_executive_report

Spec == Init /\ [][Next]_vars

(***************************************************************************)
(* The other scripts, each a process of its own.                           *)
(***************************************************************************)
\* The files the scripts write.
DashboardFiles ==
    {"comprehensive_dashboard.html", "cers_top_districts_presentation.html",
     "economic_comparison.html"}
\* multi_dataset_analysis makes an output directory for each dataset folder
\* that exists, then the dashboard directory and its pages; no column of
\* the CSV files is an outcome label, so no success-rate page is written.
MultiDatasetFiles ==
    {"analysis_outputs/" \o ds : ds \in DatasetNames}
    \cup {"analysis_outputs/dashboard", "volumes_by_dataset.html",
          "missingness_by_dataset.html", "index.html"}
InsightsFiles ==
    {"analysis_outputs/insights", "insights_summary.json", "INSIGHTS.md"}

\* A script that reads the raw CSV folders only and takes a folder without
\* CSV files for an empty dataset runs to its end and leaves its files.
RunsFromCsv(script, written) ==
    /\ exit_status[script] = "not_run"
    /\ exit_status' = [exit_status EXCEPT ![script] = "completed"]
    /\ files' = files \cup written
    /\ UNCHANGED <<top_20, csv, step, crashed, enrolment_data, demographic_data,
                   biometric_data, combined_data, insights>>

multi_dataset_analysis == RunsFromCsv("multi_dataset_analysis", MultiDatasetFiles)
generate_insights == RunsFromCsv("generate_insights", InsightsFiles)

\* coerce_types strips a cell of all but its digits, dots and dashes and
\* keeps the number that is left, if one is left: the names of the model
\* that turn into numbers.
HasDigits(s) == s \notin {"A", "B"}

\* The columns of the frame of analyze_folder but date, which is the one
\* datetime column: those of the biometric CSV files and __source_file__.
BiometricColumns ==
    <<"state", "district", "pincode", "bio_age_5_17", "bio_age_17_",
      "__source_file__">>

\* A cell of the frame; the folder holds one CSV file.
Cell(r, col) == IF col = "__source_file__" THEN "file" ELSE r[col]

\* coerce_types makes a column numeric when more than half of its cells turn
\* into numbers; numeric_name tells whether the name of the CSV file does.
IsNumericColumn(b, col, numeric_name) ==
    CASE col \in {"state", "district"} ->
             2 * SumOver({r \in DOMAIN b : HasDigits(r[col])}, b) > BagSize(b)
      [] col = "__source_file__" -> numeric_name /\ BagSize(b) > 0
      [] OTHER -> BagSize(b) > 0

\* The outcome of analyze_folder on a folder that holds a CSV file of the
\* rows b, and the files it has written by then.  The schema report is
\* written first; the heatmap of a frame without rows raises.  The plots of
\* the columns follow.  pca_and_clustering samples as many rows as the frame
\* has out of its rows without a missing number, fits KMeans of 2 to 6
\* clusters, which finds as many labels as clusters or, if fewer, distinct
\* rows, and scores each fit by silhouette_score, which takes 2 to n - 1
\* labels.  top3_corr_3d_scatter needs two numeric columns that vary.
analyze_folder(b, numeric_name) ==
    LET n == BagSize(b)
        numeric_cols ==
            SelectSeq(BiometricColumns,
                      LAMBDA c : IsNumericColumn(b, c, numeric_name))
        categorical_cols ==
            SelectSeq(BiometricColumns,
                      LAMBDA c : ~IsNumericColumn(b, c, numeric_name))
        missing(r, c) == c \in {"state", "district"} /\ ~HasDigits(r[c])
        number(r, c) == IF missing(r, c) THEN "nan" ELSE Cell(r, c)
        complete ==
            {r \in DOMAIN b :
                \A i \in DOMAIN numeric_cols : ~missing(r, numeric_cols[i])}
        points ==
            {[i \in DOMAIN numeric_cols |-> number(r, numeric_cols[i])] :
                r \in DOMAIN b}
        labels(k) == IF k < Cardinality(points) THEN k ELSE Cardinality(points)
        varying ==
            {i \in DOMAIN numeric_cols :
                Cardinality({number(r, numeric_cols[i]) : r \in DOMAIN b}) > 1}
        report == {"analysis_outputs/biometric", "schema_report.json"}
        plots ==
            report
            \cup {"missingness_heatmap.png", "time_series_date.png",
                  "geo_top_state.png", "geo_top_district.png",
                  "geo_top_pincode.png"}
            \cup (IF Len(numeric_cols) >= 2
                  THEN {"correlation_heatmap_spearman.png"} ELSE {})
            \cup {"categorical_top_" \o categorical_cols[i] \o ".png" :
                      i \in DOMAIN categorical_cols}
            \cup {"distribution_" \o numeric_cols[i] \o ".png" :
                      i \in DOMAIN numeric_cols}
        clustered ==
            plots \cup {"pca_kmeans_clusters.png", "pca_3d_projection.html"}
    IN  IF n = 0
        THEN [status |-> "failed", written |-> report]
        ELSE IF \/ SumOver(complete, b) < n
                \/ \E k \in 2..6 : n < k \/ labels(k) < 2 \/ labels(k) > n - 1
        THEN [status |-> "failed", written |-> plots]
        ELSE IF Cardinality(varying) < 2
        THEN [status |-> "failed", written |-> clustered]
        ELSE [status |-> "completed",
              written |-> clustered \cup {"top3_corr_3d_scatter.html"}]

\* main of biometric_analysis: argparse exits with status 2 when the
\* input_dir argument is not given; given, it names the biometric folder,
\* and analyze_folder raises FileNotFoundError, before it writes anything,
\* if the folder holds no CSV file.
biometric_analysis ==
    /\ exit_status["biometric_analysis"] = "not_run"
    /\ \E given \in BOOLEAN, numeric_name \in BOOLEAN :
          LET run == IF ~given
                     THEN [status |-> "usage_error", written |-> {}]
                     ELSE IF "biometric" \notin DOMAIN csv
                     THEN [status |-> "failed", written |-> {}]
                     ELSE analyze_folder(csv["biometric"], numeric_name)
          IN  /\ exit_status' = [exit_status EXCEPT
                     !["biometric_analysis"] = run.status]
              /\ files' = files \cup run.written
    /\ UNCHANGED <<top_20, csv, step, crashed, enrolment_data, demographic_data,
                   biometric_data, combined_data, insights>>

\* DashboardReads of a script that opens no file of an earlier run.
DashboardReadsNothing == {}

\* The files generate_presentation_dashboard opens for reading.
DashboardReads == {INSIGHTS_JSON}

\* The districts of the CERS presentation chart: the first 20 entries of
\* the summary's top_10_districts if it has 20, else all of them.
Top20(cers_summary) ==
    IF Len(cers_summary.top_10_districts) >= 20
    THEN SubSeq(cers_summary.top_10_districts, 1, 20)
    ELSE cers_summary.top_10_districts

\* generate_presentation_dashboard: the insights it loads are the ones
\* generate_executive_report dumped, which the analyzer still holds; open()
\* raises FileNotFoundError on a
\* missing insights file, and write_html on a missing output directory.
generate_presentation_dashboard ==
    /\ exit_status["generate_presentation_dashboard"] = "not_run"
    /\ IF DashboardReads \subseteq files /\ OUTPUT_DIR \in files
       THEN /\ files' = files \cup DashboardFiles
            /\ top_20' = Some(Top20(insights["cers_summary"]))
            /\ exit_status' = [exit_status EXCEPT
                   !["generate_presentation_dashboard"] = "completed"]
       ELSE /\ files' = files
            /\ top_20' = top_20
            /\ exit_status' = [exit_status EXCEPT
                   !["generate_presentation_dashboard"] = "failed"]
    /\ UNCHANGED <<csv, step, crashed, enrolment_data, demographic_data,
                   biometric_data, combined_data, insights>>

\* The scripts run in any order.
NextScripts ==
    \/ load_all_datasets
    \/ create_integrated_dataset
    \/ discover_hidden_pattern
    \/ calculate_exclusion_risk_score
    \/ propose_intervention_framework
    \/ quantify_economic_impact
    \/ generate_visualizations
    \/ generate_executive_report
    \/ generate_presentation_dashboard
    \/ multi_dataset_analysis
    \/ generate_insights
    \/ biometric_analysis

\* The scripts over an extract without rows, the wide or the cluster
\* extract.
SpecScripts == InitScripts /\ [][NextScripts]_vars

\* The scripts over the empty, the wide or the twenty-district extract.
SpecDashboard == InitTwenty /\ [][NextScripts]_vars

\* The runs over the wide extract.
NextWide ==
    \/ WriteWideCsvRow
    \/ load_all_datasets
    \/ create_integrated_dataset
    \/ discover_hidden_pattern
    \/ calculate_exclusion_risk_score
    \/ propose_intervention_framework
    \/ quantify_economic_impact
    \/ generate_visualizations
    \/ generate_executive_report

SpecWide == InitWide /\ [][NextWide]_vars

\* The runs over the bulk extract.
NextBulk ==
    \/ WriteBulkCsvRow
    \/ load_all_datasets
    \/ create_integrated_dataset
    \/ discover_hidden_pattern
    \/ calculate_exclusion_risk_score
    \/ propose_intervention_framework
    \/ quantify_economic_impact
    \/ generate_visualizations
    \/ generate_executive_report

SpecBulk == InitBulk /\ [][NextBulk]_vars

\* The runs over the tie extract.
NextTies ==
    \/ WriteTieCsvRow
    \/ load_all_datasets
    \/ create_integrated_dataset
    \/ discover_hidden_pattern
    \/ calculate_exclusion_risk_score
    \/ propose_intervention_framework
    \/ quantify_economic_impact
    \/ generate_visualizations
    \/ generate_executive_report

SpecTies == InitTies /\ [][NextTies]_vars

(***************************************************************************)
(* The claims.                                                             *)
(***************************************************************************)
\* The run has scored the districts; the scored frame and its summary.
Scored == "cers_summary" \in DOMAIN insights
CersDistricts == insights["cers_districts"]
CersSummary == insights["cers_summary"]
RowsOfFrame(rows) == {rows[i] : i \in DOMAIN rows}

\* x is a number of the closed range 0..100.
InPercentRange(x) == ~IsNaN(x) /\ FLe(F(0), x) /\ FLe(x, F(100))

\* C1, the sub-scores as the claim states them, from the aggregates of a
\* district r of the scored frame rows.
ClaimGapRisk(r) ==
    IF FGt(r.avg_bio_completion, F(100)) THEN F(0)
    ELSE IF FLt(r.avg_bio_completion, F(0)) THEN F(100)
    ELSE FSub(F(100), r.avg_bio_completion)
ClaimMigrationRisk(r) ==
    LET d == FMul(F(500), FAbs(FSub(r.youth_ratio_enrol, r.youth_ratio_bio)))
    IN  IF FLt(F(100), d) THEN F(100) ELSE d
ClaimVolumePressureRisk(r) ==
    LET p == FMul(r.volume_rank, FSub(F(100), r.avg_bio_completion))
    IN  IF FLt(p, F(0)) THEN F(0) ELSE IF FGt(p, F(100)) THEN F(100) ELSE p

\* The sum of a sequence of numbers, without rounding.
RECURSIVE ExactSum(_)
ExactSum(s) == IF s = <<>> THEN Zero ELSE Sum(Head(s), ExactSum(Tail(s)))

\* The float x is num / den up to the rounding of the float operations:
\* x * den is within 2^-50 of num, relative to num, as numbers.
EqualsQuotient(x, num, den) ==
    /\ ~IsNaN(x)
    /\ FCmp(FAbs(Sum(Product(x, den), FNeg(num))),
            Product(FAbs(num), <<1, <<1>>, -50>>)) <= 0

\* volatility_risk = 100 * volatility / max_volatility, where max_volatility
\* is the largest of the defined volatilities, for a district of defined
\* volatility; 0 for all districts when no volatility is above 0.
ClaimVolatilityRiskOk(r, rows) ==
    LET defined == {x.bio_gap_volatility : x \in RowsOfFrame(rows)} \ {NaN}
    IN  IF \A v \in defined : v = F(0) THEN r.volatility_risk = F(0)
        ELSE ~IsNaN(r.bio_gap_volatility) =>
             LET max_volatility ==
                     CHOOSE v \in defined : \A x \in defined : FLe(x, v)
             IN  /\ FLe(F(0), r.volatility_risk)
                 /\ EqualsQuotient(r.volatility_risk,
                                   Product(F(100), r.bio_gap_volatility),
                                   max_volatility)

\* The four sub-scores of a scored row are numbers.
SubScoresDefined(r) ==
    \A x \in {r.gap_risk, r.migration_risk, r.volatility_risk,
               r.volume_pressure_risk} : ~IsNaN(x)

\* 100 times the sum 0.40*gap_risk + 0.25*migration_risk +
\* 0.20*volatility_risk + 0.15*volume_pressure_risk of the sub-scores of a
\* scored row, as a number, taken without rounding.
WeightedHundredths(r) ==
    ExactSum(<<Product(F(40), r.gap_risk),
               Product(F(25), r.migration_risk),
               Product(F(20), r.volatility_risk),
               Product(F(15), r.volume_pressure_risk)>>)

\* 100 times the CERS of a scored row, as the nearest whole number.
CersHundredths(r) == Number(r.CERS[1], NatRound(r.CERS, 100), 0)

\* How far the CERS of a scored row is from the weighted sum, in
\* hundredths.
CersDistance(r) == FAbs(Sum(CersHundredths(r), FNeg(WeightedHundredths(r))))

\* The rounding error the float sum of the four products may carry, in
\* hundredths: 2^-30.
RoundingSlack == <<1, <<1>>, -30>>

\* CERS is the weighted sum rounded to two decimals: a whole number of
\* hundredths (the float nearest to it) that is within half a hundredth of
\* the weighted sum, up to the rounding error of the float sum.
ClaimWeightedSum(r) ==
    /\ ~IsNaN(r.CERS)
    /\ r.CERS = FDiv(CersHundredths(r), F(100))
    /\ FCmp(CersDistance(r), Sum(FDiv(F(1), F(2)), RoundingSlack)) <= 0

\* The weights are the decimal numbers 0.40, 0.25, 0.20 and 0.15, which sum
\* to 1.
ClaimWeights ==
    LET Hundredths(w) == IntOfNat(NatRound(w, 100))
    IN  /\ <<Hundredths(W_GAP), Hundredths(W_MIGRATION),
             Hundredths(W_VOLATILITY), Hundredths(W_VOLUME)>>
               = <<40, 25, 20, 15>>
        /\ \A w \in {W_GAP, W_MIGRATION, W_VOLATILITY, W_VOLUME} :
              w = FDiv(F(Hundredths(w)), F(100))
        /\ 40 + 25 + 20 + 15 = 100
        /\ FAdd(FAdd(FAdd(W_GAP, W_MIGRATION), W_VOLATILITY), W_VOLUME) = F(1)

C2_CersInRange ==
    Scored => \A r \in RowsOfFrame(CersDistricts) : InPercentRange(r.CERS)

\* C3: each of the four component scores is a number of 0..100 for every
\* district, a district of a single date row included, whose undefined
\* standard deviation counts as 0.
C3_ComponentsInRange ==
    Scored =>
        \A r \in RowsOfFrame(CersDistricts) :
            /\ InPercentRange(r.gap_risk)
            /\ InPercentRange(r.migration_risk)
            /\ InPercentRange(r.volatility_risk)
            /\ InPercentRange(r.volume_pressure_risk)

\* C4: a district is Critical exactly when its CERS is above 70 and High
\* exactly when its CERS is above 50 and at most 70; 70 is High, 50 is Medium
\* and 30 is Low; the summary counts exactly those districts.
C4_Categories ==
    Scored =>
        /\ \A r \in RowsOfFrame(CersDistricts) :
              /\ r.risk_category = "Critical" <=> FGt(r.CERS, F(70))
              /\ r.risk_category = "High" <=>
                    (FGt(r.CERS, F(50)) /\ FLe(r.CERS, F(70)))
              /\ r.CERS = F(70) => r.risk_category = "High"
              /\ r.CERS = F(50) => r.risk_category = "Medium"
              /\ r.CERS = F(30) => r.risk_category = "Low"
        /\ CersSummary.critical_risk_districts =
              Cardinality({i \in DOMAIN CersDistricts :
                              FGt(CersDistricts[i].CERS, F(70))})
        /\ CersSummary.high_risk_districts =
              Cardinality({i \in DOMAIN CersDistricts :
                              /\ FGt(CersDistricts[i].CERS, F(50))
                              /\ FLe(CersDistricts[i].CERS, F(70))})

\* C4 witness: a run with a district at exactly 70, one at exactly 50 and a
\* Critical one.
C4_Witness ==
    /\ Scored
    /\ \E r \in RowsOfFrame(CersDistricts) : r.CERS = F(70)
    /\ \E r \in RowsOfFrame(CersDistricts) : r.CERS = F(50)
    /\ \E r \in RowsOfFrame(CersDistricts) : r.risk_category = "Critical"

\* The smaller of two numbers.
Min(a, b) == IF a < b THEN a ELSE b

\* C5: the ranked district list is in non-increasing order of CERS (no row
\* has a CERS above that of a row before it, and the rows without a CERS
\* come last), and the summary's top_10_districts are exactly its first
\* min(10, n) rows, in that order.
C5_RankedTopTen ==
    Scored =>
        LET n == Len(CersDistricts)
            top == CersSummary.top_10_districts
        IN  /\ \A i \in 1..n : \A j \in 1..n :
                  i < j =>
                     /\ ~FGt(CersDistricts[j].CERS, CersDistricts[i].CERS)
                     /\ IsNaN(CersDistricts[i].CERS) =>
                            IsNaN(CersDistricts[j].CERS)
            /\ Len(top) = Min(10, n)
            /\ \A k \in 1..Len(top) :
                  /\ top[k].state = CersDistricts[k].state
                  /\ top[k].district = CersDistricts[k].district
                  /\ top[k].CERS = CersDistricts[k].CERS
                  /\ top[k].risk_category = CersDistricts[k].risk_category
                  /\ top[k].total_enrolments = CersDistricts[k].total_enrolments

\* C5 witness: a run that ranks more than ten districts, of which the
\* eleventh scores lower than the first and is left out of the top ten.
C5_Witness ==
    /\ Scored
    /\ Len(CersDistricts) > 10
    /\ Len(CersSummary.top_10_districts) = 10
    /\ FLt(CersDistricts[11].CERS, CersDistricts[1].CERS)

\* The integrated table is built.
Integrated == ~IsNone(combined_data)
\* The key of a CSV row as the integrated table holds it (the date parsed).
CsvKey(r) == <<<<r.date[3], r.date[2], r.date[1]>>, r.state, r.district>>
CsvKeys(ds) == {CsvKey(r) : r \in DOMAIN csv[ds]}
\* The rows of a dataset at a key, and the sum of one of their columns.
CsvCount(ds, key) ==
    SumOver({r \in DOMAIN csv[ds] : CsvKey(r) = key}, csv[ds])
CsvSum(ds, key, col) ==
    SumOver({r \in DOMAIN csv[ds] : CsvKey(r) = key},
            [r \in DOMAIN csv[ds] |-> csv[ds][r] * r[col]])

\* C6: the integrated table has exactly one row for every (date, state,
\* district) key that occurs in the enrolment, demographic or biometric
\* dataset and no other row; the count and sum columns of a row are those of
\* the records of its key, 0 for a dataset without a record of the key.
C6_FullOuterJoin ==
    Integrated =>
        LET df == Value(combined_data)
            keys == CsvKeys("enrolment") \cup CsvKeys("demographic")
                        \cup CsvKeys("biometric")
        IN  /\ {KeyOf(df[i]) : i \in DOMAIN df} = keys
            /\ Len(df) = Cardinality(keys)
            /\ \A i \in DOMAIN df :
                  LET r == df[i]
                      k == KeyOf(r)
                  IN  /\ r.enrol_count = F(CsvCount("enrolment", k))
                      /\ r.age_0_5 = F(CsvSum("enrolment", k, "age_0_5"))
                      /\ r.age_5_17 = F(CsvSum("enrolment", k, "age_5_17"))
                      /\ r.age_18_greater =
                            F(CsvSum("enrolment", k, "age_18_greater"))
                      /\ r.demo_count = F(CsvCount("demographic", k))
                      /\ r.demo_age_5_17 =
                            F(CsvSum("demographic", k, "demo_age_5_17"))
                      /\ r.demo_age_17_ =
                            F(CsvSum("demographic", k, "demo_age_17_"))
                      /\ r.bio_count = F(CsvCount("biometric", k))
                      /\ r.bio_age_5_17 =
                            F(CsvSum("biometric", k, "bio_age_5_17"))
                      /\ r.bio_age_17_ =
                            F(CsvSum("biometric", k, "bio_age_17_"))
                      /\ k \notin CsvKeys("enrolment") =>
                            /\ r.enrol_count = F(0) /\ r.age_0_5 = F(0)
                            /\ r.age_5_17 = F(0) /\ r.age_18_greater = F(0)
                      /\ k \notin CsvKeys("demographic") =>
                            /\ r.demo_count = F(0) /\ r.demo_age_5_17 = F(0)
                            /\ r.demo_age_17_ = F(0)
                      /\ k \notin CsvKeys("biometric") =>
                            /\ r.bio_count = F(0) /\ r.bio_age_5_17 = F(0)
                            /\ r.bio_age_17_ = F(0)

\* C6 witness: an integrated table with a key of the enrolment dataset only,
\* a key of the biometric dataset only and a key with two records of one
\* dataset.
C6_Witness ==
    /\ Integrated
    /\ \E k \in CsvKeys("enrolment") :
          k \notin CsvKeys("demographic") \cup CsvKeys("biometric")
    /\ \E k \in CsvKeys("biometric") :
          k \notin CsvKeys("demographic") \cup CsvKeys("enrolment")
    /\ \E ds \in DatasetNames : \E k \in CsvKeys(ds) : CsvCount(ds, k) = 2

\* Two scored districts that are identical in every aggregate the scoring
\* reads but their demographic update completion.
DifferInDemoOnly(a, b) ==
    /\ a.avg_demo_completion # b.avg_demo_completion
    /\ a.avg_bio_completion = b.avg_bio_completion
    /\ a.avg_bio_gap = b.avg_bio_gap
    /\ a.bio_gap_volatility = b.bio_gap_volatility
    /\ a.youth_ratio_enrol = b.youth_ratio_enrol
    /\ a.youth_ratio_bio = b.youth_ratio_bio
    /\ a.total_enrolments = b.total_enrolments

\* C7: the demographic update gap influences the score: two districts of a
\* run that are identical except for their demographic update completion
\* rate receive different CERS values.
C7_DemoGapInfluencesCers ==
    Scored =>
        \A a \in RowsOfFrame(CersDistricts) :
            \A b \in RowsOfFrame(CersDistricts) :
                DifferInDemoOnly(a, b) => a.CERS # b.CERS

\* The produce of the stages: the attributes, insights entries and files that
\* exist.
Artifacts ==
    {a \in {"enrolment_data", "demographic_data", "biometric_data"} :
        \/ a = "enrolment_data" /\ ~IsNone(enrolment_data)
        \/ a = "demographic_data" /\ ~IsNone(demographic_data)
        \/ a = "biometric_data" /\ ~IsNone(biometric_data)}
    \cup (IF IsNone(combined_data) THEN {} ELSE {"combined_data"})
    \cup DOMAIN insights
    \cup files

\* C8, the pipeline as the claim lists it: what the k-th stage reads and
\* what it writes.
ClaimReads ==
    <<{}, {"enrolment_data", "demographic_data", "biometric_data"},
      {"combined_data"}, {"combined_data"},
      {"combined_data", "cers_districts"}, {"interventions"},
      {"combined_data", "cers_districts", "economic_impact"},
      {"hidden_pattern", "cers_summary", "interventions", "economic_impact"}>>
ClaimWrites ==
    <<{"enrolment_data", "demographic_data", "biometric_data"},
      {"combined_data"}, {"hidden_pattern"},
      {"cers_districts", "cers_summary"}, {"interventions"},
      {"economic_impact"},
      {OUTPUT_DIR} \cup VisualizationFiles,
      {REPORT_MD, INSIGHTS_JSON}>>

\* C8: run_full_analysis runs its eight stages in the listed order, each
\* once: every step of a run is the next stage of the list, which finds
\* everything it reads written by an earlier stage and writes its own
\* produce, nothing else; no stage raises on a missing entry: the one raise
\* of a run is that of load_all_datasets, before any stage has returned,
\* on a folder that holds no CSV file.
C8_LinearPipeline ==
    /\ [](crashed => step = 0 /\ DOMAIN csv # DatasetNames)
    /\ [][step' # step =>
            /\ step' = step + 1
            /\ step' <= 8
            /\ ClaimReads[step'] \subseteq Artifacts
            /\ ClaimWrites[step'] \cap Artifacts = {}
            /\ Artifacts' = Artifacts \cup ClaimWrites[step']]_vars

\* C8 witness: a run over a nonempty extract has returned from its last
\* stage, with the report and the insights file written.
C8_Witness ==
    /\ step = 8
    /\ ~crashed
    /\ AddedRows(csv) > 0
    /\ {REPORT_MD, INSIGHTS_JSON} \subseteq files
    /\ {"hidden_pattern", "cers_districts", "cers_summary", "interventions",
        "economic_impact"} \subseteq DOMAIN insights

\* C9 is not stated: every stage is an operator of the three datasets (and
\* of the tie order of the build's sort), so two runs on the same datasets
\* are two evaluations of the same operators.

\* The scripts that read the raw CSV folders and nothing else.
ReadOnlyCsv == Scripts \ {"generate_presentation_dashboard"}

\* The raw CSV folders hold what the script needs to complete: a CSV file
\* in each folder for advanced_risk_analysis, a CSV file of the biometric
\* folder whose rows analyze_folder can cluster for biometric_analysis.
InputsSuffice(s) ==
    CASE s = "advanced_risk_analysis" -> DOMAIN csv = DatasetNames
      [] s = "biometric_analysis" ->
             /\ "biometric" \in DOMAIN csv
             /\ \A numeric_name \in BOOLEAN :
                   analyze_folder(csv["biometric"], numeric_name).status
                       = "completed"
      [] OTHER -> TRUE

\* C10, as stated: every script completes standalone from the raw CSV
\* folders; none fails for want of a file another script's run writes, that
\* is, none fails while the folders hold what it needs.
C10_EveryScriptStandalone ==
    \A s \in Scripts : exit_status[s] = "failed" => ~InputsSuffice(s)

\* C10, amended: every script but generate_presentation_dashboard completes
\* from the raw CSV folders alone: it fails only when the folders do not
\* hold what it needs, whatever the other scripts have written;
\* generate_presentation_dashboard completes only after a run of
\* advanced_risk_analysis has completed and left its insights file, and
\* fails when it is run before.
C10_StandaloneButDashboard ==
    /\ \A s \in ReadOnlyCsv : exit_status[s] = "failed" => ~InputsSuffice(s)
    /\ exit_status["generate_presentation_dashboard"] = "completed" =>
          /\ exit_status["advanced_risk_analysis"] = "completed"
          /\ INSIGHTS_JSON \in files
    /\ (exit_status["generate_presentation_dashboard"] = "failed"
            /\ exit_status["advanced_risk_analysis"] = "not_run")
          => INSIGHTS_JSON \notin files

\* C10 witness: with no run of advanced_risk_analysis, the three other
\* scripts of the raw folders have completed and
\* generate_presentation_dashboard has failed.
C10_Witness ==
    /\ step = 0
    /\ INSIGHTS_JSON \notin files
    /\ exit_status["generate_presentation_dashboard"] = "failed"
    /\ \A s \in ReadOnlyCsv \ {"advanced_risk_analysis"} :
          exit_status[s] = "completed"

\* The run has proposed the interventions; the mobile-van intervention.
Proposed == "interventions" \in DOMAIN insights
MobileVan == insights["interventions"].mobile_van_optimizer

\* The scored districts whose CERS is above 50.
AboveFifty == {r \in RowsOfFrame(CersDistricts) : FGt(r.CERS, F(50))}

\* The (state, district) pairs of the routes of the mobile vans.
RoutedDistricts ==
    UNION {{<<MobileVan.priority_states[i].state,
              MobileVan.priority_states[i].priority_districts[k]>> :
               k \in DOMAIN MobileVan.priority_states[i].priority_districts} :
           i \in DOMAIN MobileVan.priority_states}

\* C11: the mobile vans are routed to exactly the districts whose CERS is
\* above 50: total_districts_to_cover is the number of those districts,
\* estimated_population_reached is the sum of their total_enrolments, and
\* the routes by state list those districts and no other.
C11_MobileVanTargets ==
    Proposed =>
        /\ MobileVan.total_districts_to_cover = Cardinality(AboveFifty)
        /\ F(MobileVan.estimated_population_reached) =
              ExactSum(Column(SelectSeq(CersDistricts,
                                        LAMBDA r : FGt(r.CERS, F(50))),
                              LAMBDA r : r.total_enrolments))
        /\ RoutedDistricts = {<<r.state, r.district>> : r \in AboveFifty}

\* C11 witness: the interventions of a run that scored one district at
\* exactly 50, which the vans leave out, and a High and a Critical district,
\* which they cover, with enrolments to reach.
C11_Witness ==
    /\ Proposed
    /\ \E r \in RowsOfFrame(CersDistricts) : r.CERS = F(50)
    /\ \E r \in RowsOfFrame(CersDistricts) : r.risk_category = "High"
    /\ \E r \in RowsOfFrame(CersDistricts) : r.risk_category = "Critical"
    /\ MobileVan.total_districts_to_cover = 2
    /\ MobileVan.estimated_population_reached > 0

\* The proactive-alert intervention of the run.
Alerts == insights["interventions"].proactive_alerts

\* The integrated rows dated within 90 days of the latest date, and the
\* districts they belong to.
RecentRowsOf(d) ==
    LET df == Value(combined_data)
    IN  SelectSeq(df, LAMBDA r :
            /\ DistrictOf(r) = d
            /\ \A q \in Range(df) : Ordinal(q.date) - Ordinal(r.date) <= 90)
RecentDistricts == {d \in {DistrictOf(r) : r \in Range(Value(combined_data))} :
                        RecentRowsOf(d) # <<>>}

\* The mean bio_completion_rate of the recent rows of a district is below
\* 80; the enrolment count of those rows.
BelowEighty(d) ==
    FLt(ExactSum(Column(RecentRowsOf(d), LAMBDA r : r.bio_completion_rate)),
        F(80 * Len(RecentRowsOf(d))))
RecentEnrolCount(d) ==
    IntOf(ExactSum(Column(RecentRowsOf(d), LAMBDA r : r.enrol_count)))

\* The alerts target exactly the districts of the set S: target_districts
\* is its size and estimated_beneficiaries the whole part of 30% of the
\* enrolment counts of its districts.
AlertsTarget(S) ==
    LET total == SumOver(S, [d \in S |-> RecentEnrolCount(d)])
    IN  /\ Alerts.target_districts = Cardinality(S)
        /\ 10 * Alerts.estimated_beneficiaries <= 3 * total
        /\ 3 * total < 10 * (Alerts.estimated_beneficiaries + 1)

\* C12 as stated: every district whose mean bio_completion_rate over the
\* recent rows is below 80 is a target of the proactive alerts and its
\* enrolment count is among the estimated beneficiaries.
C12_AlertsTargetBelowEighty ==
    Proposed => AlertsTarget({d \in RecentDistricts : BelowEighty(d)})

\* C12 amended: the targets of the proactive alerts are the districts whose
\* mean bio_completion_rate over the recent rows is below 80 and whose
\* enrolment count over those rows is above 50; estimated_beneficiaries is
\* the whole part of 30% of the enrolment counts of those districts.
C12_AlertsTargetBelowEightyAboveFifty ==
    Proposed =>
        AlertsTarget({d \in RecentDistricts :
                         BelowEighty(d) /\ RecentEnrolCount(d) > 50})

\* C12 witness: the alerts of a run over the bulk extract: the districts of
\* 51, 55 and 94 enrolment rows below 80 are targets, the district of 50 rows
\* and the one at exactly 80 are not, and the district whose rows are older
\* than 90 days is not among the recent ones.
C12_Witness ==
    /\ Proposed
    /\ Alerts.target_districts = 3
    /\ Alerts.estimated_beneficiaries = 60
    /\ BelowEighty(<<"S3", "D01">>) /\ RecentEnrolCount(<<"S3", "D01">>) = 51
    /\ BelowEighty(<<"S3", "D02">>) /\ RecentEnrolCount(<<"S3", "D02">>) = 50
    /\ ~BelowEighty(<<"S3", "D03">>) /\ RecentEnrolCount(<<"S3", "D03">>) = 55
    /\ BelowEighty(<<"S3", "D04">>) /\ Len(RecentRowsOf(<<"S3", "D04">>)) = 2
    /\ BelowEighty(<<"S3", "D06">>) /\ RecentEnrolCount(<<"S3", "D06">>) = 94
    /\ <<"S3", "D05">> \notin RecentDistricts

\* The dashboard script has drawn its CERS presentation chart.
Plotted == ~IsNone(top_20)

\* C13: when the scored dataset has at least 20 districts, the CERS
\* presentation chart of generate_presentation_dashboard shows 20 districts,
\* the 20 of the highest CERS in rank order.
C13_ChartShowsTopTwenty ==
    (Plotted /\ Len(CersDistricts) >= 20) =>
        /\ Len(Value(top_20)) = 20
        /\ \A k \in 1..20 :
              /\ k \in DOMAIN Value(top_20)
              /\ Value(top_20)[k].state = CersDistricts[k].state
              /\ Value(top_20)[k].district = CersDistricts[k].district
              /\ Value(top_20)[k].CERS = CersDistricts[k].CERS

\* The four categories.
Categories == {"Low", "Medium", "High", "Critical"}

\* C14: every scored district has exactly one of the four categories, so
\* the four counts of the summary add up to total_districts, a district of
\* CERS exactly 0 included.
C14_CategoriesPartition ==
    Scored =>
        /\ \A r \in RowsOfFrame(CersDistricts) : r.risk_category \in Categories
        /\ CersSummary.critical_risk_districts + CersSummary.high_risk_districts
              + CersSummary.medium_risk_districts
              + CersSummary.low_risk_districts
           = CersSummary.total_districts

\* The rate of a row is 100 * count / enrol_count on a row with enrolments
\* and exactly 100 on a row without, and it is a finite number.
RateAsEngineered(rate, count, enrol_count) ==
    /\ ~IsNaN(rate)
    /\ FGt(enrol_count, F(0)) =>
          EqualsQuotient(rate, Product(F(100), count), enrol_count)
    /\ enrol_count = F(0) => rate = F(100)

\* Both rates of every integrated row are as _engineer_features computes
\* them.
RatesAsEngineered ==
    \A r \in Range(Value(combined_data)) :
        /\ FLe(F(0), r.enrol_count)
        /\ RateAsEngineered(r.bio_completion_rate, r.bio_count, r.enrol_count)
        /\ RateAsEngineered(r.demo_completion_rate, r.demo_count, r.enrol_count)

\* C15 as stated: the rates are as engineered, and a rate exceeds 100
\* exactly when the update count exceeds the enrolment count.
C15_RateAboveHundredIffMoreUpdates ==
    Integrated =>
        /\ RatesAsEngineered
        /\ \A r \in Range(Value(combined_data)) :
              /\ FGt(r.bio_completion_rate, F(100)) <=>
                    FGt(r.bio_count, r.enrol_count)
              /\ FGt(r.demo_completion_rate, F(100)) <=>
                    FGt(r.demo_count, r.enrol_count)

\* C15 amended: the rates are as engineered, and a rate exceeds 100 exactly
\* when the row has enrolments and the update count exceeds the enrolment
\* count; on a row without enrolments the rate is 100 however many updates
\* the row has.
C15_RateAboveHundredIffEnrolledAndMoreUpdates ==
    Integrated =>
        /\ RatesAsEngineered
        /\ \A r \in Range(Value(combined_data)) :
              /\ FGt(r.bio_completion_rate, F(100)) <=>
                    (FGt(r.enrol_count, F(0)) /\ FGt(r.bio_count, r.enrol_count))
              /\ FGt(r.demo_completion_rate, F(100)) <=>
                    (FGt(r.enrol_count, F(0)) /\ FGt(r.demo_count, r.enrol_count))

\* C15 witness: an integrated table with a row of biometric updates and no
\* enrolment, whose rate is 100, and a row of two biometric updates to one
\* enrolment, whose rate is 200.
C15_Witness ==
    /\ Integrated
    /\ \E r \in Range(Value(combined_data)) :
          /\ r.enrol_count = F(0) /\ FGt(r.bio_count, F(0))
          /\ r.bio_completion_rate = F(100)
    /\ \E r \in Range(Value(combined_data)) :
          /\ r.enrol_count = F(1) /\ r.bio_count = F(2)
          /\ r.bio_completion_rate = F(200)

=============================================================================
